---- MODULE Spec2Model ----
(***************************************************************************)
(* Model of the alert-triage agent of ondutycat: the orchestrator           *)
(* (AgentOrchestrator.processTenantAlerts and the steps it awaits), the     *)
(* two agent-process endpoints that drive it (GET over all tenants, POST    *)
(* with tenant_ids), the XML response parser (xmlToJSON and the             *)
(* conclusion classification), and the tool-call interceptor chain          *)
(* (retry and audit logging as createAgent composes them).                  *)
(*                                                                          *)
(* Several specifications share the module: Spec (endpoints,               *)
(* orchestrator, parser), SpecChain (interceptor chain) and one for each    *)
(* further component.  Each leaves the variables of the other components    *)
(* at their idle value.                                                     *)
(***************************************************************************)
EXTENDS Integers, Sequences, FiniteSets, TLC

VARIABLES
    \* ---- endpoints and orchestrator (Spec) ----
    endpoint,     \* which route handles the invocation: "GET" | "POST" | "none"
    bodyOk,       \* POST: body.tenant_ids is an array
    dryRun,       \* GET: ?dry_run=true
    alertTenant,  \* alert.tenantId of every stored alert
    alertStatus,  \* alert.status of every stored alert
    active,       \* tenants whose status is "active"
    order,        \* GET: Object.entries(alertsByTenant) order; POST: tenant_ids
    idx,          \* GET: position of the for-loop in order
    pc,           \* per tenant: position of its processTenantAlerts call
    batch,        \* per tenant: the alerts argument of the call
    modelError,   \* per tenant: what the agent invocation threw (NoError if nothing)
    response,     \* per tenant: what the agent invocation returned
    result,       \* per tenant: the AnalysisResult returned by invoke
    issueOf,      \* per tenant: issue.id held by createIssue (0: none yet)
    issues,       \* rows of prisma.issue
    bindings,     \* rows of prisma.issueAlertBinding
    ret,          \* per tenant: what the call returned, or the exception it raised
    http,         \* the endpoint's HTTP response
    \* ---- interceptor chain (SpecChain) ----
    entry,        \* "direct": bare retry middleware; "createAgent": as composed by createAgent
    cfgMax,       \* the maxAttempts argument (Undefined when omitted)
    hasLog,       \* createAgent: config.log is given
    toolCallId,   \* request.toolCall.id ("" when absent)
    chain,        \* the middleware array handed to langchain, in array order
    layer,        \* where control is: 0 the reasoning turn, i the i-th wrapper, Len(chain)+1 the tool
    dir,          \* "idle" | "down" (calling) | "up" (returning or throwing) | "done"
    val,          \* the value travelling up: a tool result, a ToolMessage or an exception
    attempt,      \* the retry loop's counter
    calls,        \* outcome of every execution of the real tool, in order
    retryLogs,    \* number of "retry" console.log lines written by the retry interceptor
    auditLog,     \* records passed to the log function, in order
    path,         \* wrappers entered on the way down of the current attempt
    received,     \* what the reasoning turn got back
    \* ---- conclusion classification (SpecClassify) ----
    clsPc,        \* "idle" | "parsed" | "classified" | "persisted"
    clsResult,    \* the AnalysisResult | null handed to determineIfRealIssueFromXML
    clsVerdict,   \* isRealIssue of the result invoke returns
    clsIssue,     \* the prisma.issue row createIssue writes from it
    \* ---- run_code sandbox (SpecSandbox) ----
    sbImpl,       \* "vm": executeInVM; "v8": executeInV8Sandbox; "none"
    sbPc,         \* position in the current execute call ("idle" between calls)
    sbSnippets,   \* the snippets of the calls made so far, in order
    sbGlobals,    \* names written in the current call's own global scope
    sbInput,      \* names written on the current call's INPUT object
    sbHost,       \* names written on objects of the host realm (JSON, Math, Object, ...)
    sbSettled,    \* what the execution settled to, or the error caught
    sbLive,       \* what the calls started and is still live: timers, runs, sandboxes
    sbResults,    \* the RunCodeResult of every call that has returned, in order
    sbHostErrors, \* exceptions and rejections that reached the host process unhandled
    \* ---- skills cache and skill routes (SpecSkills) ----
    skDb,         \* rows of prisma.skill, by skill id
    skWrites,     \* per tenant: number of skill writes the routes have completed
    skCache,      \* SkillsCacheService.cache: per tenant a CacheEntry or NoEntry
    skNow,        \* Date.now()
    skTicks,      \* number of clock advances so far
    skGets,       \* number of getSkills calls started so far
    skCall,       \* per caller: the getSkills call it is in, or its last outcome
    \* ---- MCP client cache (SpecMcp) ----
    mcCache,      \* mcpClientCache: per cache key the cached client (0: no entry)
    mcClients,    \* every Client created so far, in order of creation
    mcCall,       \* per tool invocation in progress: its getMCPClient call
    mcClosePc,    \* closeAllMCPClients: "idle" | "closing" | "returned"
    mcTasks,      \* closeAllMCPClients: per cache key its closeMCPClient call
    \* ---- overlapping runs of the agent process endpoint (SpecRuns) ----
    rnRun,        \* per run: its position, the alerts it selected, its issue id
    rnAlerts,     \* alert.status of every stored alert ("absent": not received yet)
    rnIssues,     \* number of rows of prisma.issue
    rnBindings,   \* rows of prisma.issueAlertBinding
    \* ---- skill matcher (SpecMatch) ----
    mtVariant,    \* "list": matchSkill(alerts[]); "single": matchSkill(alert)
    mtAlerts,     \* the alerts argument (one alert for "single")
    mtBindings,   \* rows of prisma.alertSkillBinding
    mtSkills,     \* rows of prisma.skill
    mtPc,         \* "idle" | "semantic" | "returned"
    mtTests,      \* the patternMatches calls of this matchSkill call with their results
    mtScores,     \* the calculateKeywordSimilarity calls of this call with their results
    mtResult,     \* what this matchSkill call returned
    mtPrev,       \* what the previous matchSkill call returned
    \* ---- invalidate of the skills cache (SpecInvalidate) ----
    skInval,      \* per tenant: the writes and the getSkills calls made before
                  \* its last invalidate returned
    \* ---- console capture of overlapping run_code executions (SpecConsole) ----
    conConsole,   \* the host's console.log, console.error and console.warn
    conExec,      \* per execution: its position and its originalLog/Error/Warn
    conOutput     \* the last call the rest of the process made on the host console

orchVars == <<endpoint, bodyOk, dryRun, alertTenant, alertStatus, active, order, idx,
              pc, batch, modelError, response, result, issueOf, issues, bindings,
              ret, http>>
chainVars == <<entry, cfgMax, hasLog, toolCallId, chain, layer, dir, val, attempt,
               calls, retryLogs, auditLog, path, received>>
classVars == <<clsPc, clsResult, clsVerdict, clsIssue>>
\* the components other than the orchestrator and the interceptor chain
sandboxVars == <<sbImpl, sbPc, sbSnippets, sbGlobals, sbInput, sbHost, sbSettled,
                 sbLive, sbResults, sbHostErrors>>
skillVars == <<skDb, skWrites, skCache, skNow, skTicks, skGets, skCall>>
mcpVars == <<mcCache, mcClients, mcCall, mcClosePc, mcTasks>>
runVars == <<rnRun, rnAlerts, rnIssues, rnBindings>>
matchVars == <<mtVariant, mtAlerts, mtBindings, mtSkills, mtPc, mtTests, mtScores,
               mtResult, mtPrev>>
invVars == <<skInval>>
conVars == <<conConsole, conExec, conOutput>>
moreVars == <<runVars, matchVars, invVars, conVars>>
restVars == <<classVars, sandboxVars, skillVars, mcpVars, moreVars>>
vars == <<orchVars, chainVars, restVars>>

-----------------------------------------------------------------------------
(* Bounds of the model *)

\* number of stored alerts
NumAlerts == 3
\* largest maxAttempts value tried
MaxAttemptsBound == 3

Tenants == {"t1", "t2"}
AlertIds == 1..NumAlerts

Undefined == [t |-> "undefined"]
Null == [t |-> "null"]
NoError == [isError |-> FALSE, message |-> ""]

-----------------------------------------------------------------------------
(* Text.  A text is a sequence of tokens: a tag, a word of running text, a  *)
(* bare "&", an entity reference, a bare "<", or a CDATA delimiter.         *)

Tok(k, v) == [k |-> k, v |-> v]
Open(n) == Tok("open", n)
Close(n) == Tok("close", n)
Word(w) == Tok("text", w)
Amp == Tok("amp", "&")
Entity == Tok("entity", "&amp;")
Lt == Tok("lt", "<")
CdStart == Tok("cdstart", "<![CDATA[")
CdEnd == Tok("cdend", "]]>")

RootTag == "analysis"

\* JSON.stringify(response): the text inside a JSON envelope
JsonStringify(text) == <<Word("{")>> \o text \o <<Word("}")>>

\* typeof response === "string" ? response : JSON.stringify(response)
ResponseText(r) == IF r.isString THEN r.text ELSE JsonStringify(r.text)

\* positions of a token in a text
Positions(text, tok) == {i \in 1..Len(text) : text[i] = tok}

Min(S) == CHOOSE x \in S : \A y \in S : x <= y

\* responseText.match(/<analysis>[\s\S]*?<\/analysis>/): the leftmost
\* <analysis> that some </analysis> follows, up to the first </analysis> after it
XmlMatch(text) ==
    LET starts == {i \in Positions(text, Open(RootTag)) :
                     \E j \in Positions(text, Close(RootTag)) : j > i}
    IN IF starts = {} THEN <<>>
       ELSE LET i == Min(starts)
                j == Min({k \in Positions(text, Close(RootTag)) : k > i})
            IN SubSeq(text, i, j)

(* xml2js (sax, strict): the parser state after a prefix of the text *)
ScanInit == [stack |-> <<>>, cdata |-> FALSE, closed |-> FALSE, err |-> FALSE]

ScanErr(s) == [s EXCEPT !.err = TRUE]

ScanStep(s, t) ==
    IF s.err THEN s
    ELSE IF s.cdata
         THEN IF t.k = "cdend" THEN [s EXCEPT !.cdata = FALSE] ELSE s
    ELSE IF t.k = "open"
         THEN IF s.closed THEN ScanErr(s)
              ELSE [s EXCEPT !.stack = Append(s.stack, t.v)]
    ELSE IF t.k = "close"
         THEN IF s.stack = <<>> \/ s.stack[Len(s.stack)] # t.v THEN ScanErr(s)
              ELSE [s EXCEPT !.stack = SubSeq(s.stack, 1, Len(s.stack) - 1),
                             !.closed = (Len(s.stack) = 1)]
    ELSE IF t.k \in {"text", "entity", "cdend"}
         THEN IF s.stack = <<>> THEN ScanErr(s) ELSE s
    ELSE IF t.k = "cdstart"
         THEN IF s.stack = <<>> THEN ScanErr(s) ELSE [s EXCEPT !.cdata = TRUE]
    ELSE ScanErr(s)   \* a bare & or a bare <

RECURSIVE Scan(_, _)
Scan(text, i) == IF i = 0 THEN ScanInit ELSE ScanStep(Scan(text, i - 1), text[i])

\* parseStringPromise resolves (it rejects otherwise)
ParseOk(text) ==
    LET s == Scan(text, Len(text))
    IN ~s.err /\ s.closed /\ ~s.cdata /\ s.stack = <<>>

\* the character data token i contributes to the element open at it ("" if none)
CharData(text, i) ==
    LET s == Scan(text, i - 1)
        t == text[i]
    IN IF s.cdata THEN (IF t.k = "cdend" THEN "" ELSE t.v)
       ELSE IF t.k = "entity" THEN "&"
       ELSE IF t.k \in {"text", "cdend"} THEN t.v
       ELSE ""

\* the words directly inside the element at path, in order
RECURSIVE TextUpTo(_, _, _)
TextUpTo(text, elemPath, i) ==
    IF i = 0 THEN <<>>
    ELSE LET rest == TextUpTo(text, elemPath, i - 1)
         IN IF Scan(text, i - 1).stack = elemPath /\ CharData(text, i) # ""
            THEN Append(rest, CharData(text, i))
            ELSE rest

TextOf(text, elemPath) == TextUpTo(text, elemPath, Len(text))

\* positions of the start tags of the child elements of the element(s) at path
ChildOpens(text, elemPath) ==
    {i \in 1..Len(text) :
        LET s == Scan(text, i - 1)
        IN ~s.cdata /\ ~s.err /\ text[i].k = "open" /\ s.stack = elemPath}

ChildNames(text, elemPath) == {text[i].v : i \in ChildOpens(text, elemPath)}

\* explicitArray: false -- one child of a name is a value, several are an array;
\* an element with child elements is an object, one without is its trimmed text
LeafValue(text, elemPath, n) ==
    IF Cardinality({i \in ChildOpens(text, elemPath) : text[i].v = n}) > 1
    THEN [t |-> "array"]
    ELSE IF ChildNames(text, Append(elemPath, n)) # {}
    THEN [t |-> "object", m |-> <<>>]
    ELSE [t |-> "string", s |-> TextOf(text, Append(elemPath, n))]

ElemValue(text, elemPath, n) ==
    IF Cardinality({i \in ChildOpens(text, elemPath) : text[i].v = n}) > 1
    THEN [t |-> "array"]
    ELSE IF ChildNames(text, Append(elemPath, n)) # {}
    THEN [t |-> "object",
          m |-> [c \in ChildNames(text, Append(elemPath, n)) |->
                    LeafValue(text, Append(elemPath, n), c)]]
    ELSE [t |-> "string", s |-> TextOf(text, Append(elemPath, n))]

\* explicitRoot: false -- the result is the content of the root element,
\* keyed by the names of the root's children; the root's own name is dropped
ParseString(text) ==
    [t |-> "object",
     m |-> [n \in ChildNames(text, <<text[1].v>>) |-> ElemValue(text, <<text[1].v>>, n)]]

\* xml.replace(/&(?!(?:amp|lt|gt|quot|apos|#\d+|#x[\da-fA-F]+);)/g, "&amp;")
EscapeAmp(text) == [i \in 1..Len(text) |-> IF text[i] = Amp THEN Entity ELSE text[i]]

\* one pass of wrapTagsWithCDATA for one tag, from position i on:
\* /<tag>([\s\S]*?)<\/tag>/g, content wrapped unless it includes "<![CDATA["
RECURSIVE WrapFrom(_, _, _)
WrapFrom(text, tag, i) ==
    LET opens == {k \in Positions(text, Open(tag)) : k >= i /\
                     \E j \in Positions(text, Close(tag)) : j > k}
    IN IF opens = {} THEN SubSeq(text, i, Len(text))
       ELSE LET o == Min(opens)
                c == Min({j \in Positions(text, Close(tag)) : j > o})
                content == SubSeq(text, o + 1, c - 1)
                wrapped == IF \E k \in 1..Len(content) : content[k] = CdStart
                           THEN content
                           ELSE <<CdStart>> \o content \o <<CdEnd>>
            IN SubSeq(text, i, o) \o wrapped \o <<text[c]>> \o WrapFrom(text, tag, c + 1)

WrapTag(text, tag) == WrapFrom(text, tag, 1)

\* wrapTagsWithCDATA called with the tag "content" alone
wrapTagsWithCDATAContentOnly(text) == WrapTag(text, "content")

wrapTagsWithCDATA(text) ==
    WrapTag(WrapTag(WrapTag(text, "content"), "answer"), "detailed_analysis")

\* the stage of xmlToJSON that parses: 1 verbatim, 2 after escaping bare &,
\* 3 after escaping and CDATA wrapping; 0 when all three reject
XmlStage(xml) ==
    IF ParseOk(xml) THEN 1
    ELSE IF ParseOk(EscapeAmp(xml)) THEN 2
    ELSE IF ParseOk(wrapTagsWithCDATA(EscapeAmp(xml))) THEN 3
    ELSE 0

xmlToJSON(xml) ==
    CASE XmlStage(xml) = 1 -> ParseString(xml)
      [] XmlStage(xml) = 2 -> ParseString(EscapeAmp(xml))
      [] XmlStage(xml) = 3 -> ParseString(wrapTagsWithCDATA(EscapeAmp(xml)))
      [] OTHER -> [t |-> "throws"]

\* parseXMLResponse: null when no block is found or xmlToJSON throws
parseXMLResponse(r) ==
    LET xmlContent == XmlMatch(ResponseText(r))
    IN IF xmlContent = <<>> THEN Null
       ELSE IF xmlToJSON(xmlContent).t = "throws" THEN Null
       ELSE xmlToJSON(xmlContent)

\* property access obj?.key
Get(obj, key) ==
    IF obj.t = "object" /\ key \in DOMAIN obj.m THEN obj.m[key] ELSE Undefined

\* String.prototype.toUpperCase on one word
UpperWord(w) ==
    CASE w = "real_issue" -> "REAL_ISSUE"
      [] w = "false_positive" -> "FALSE_POSITIVE"
      [] w = "needs_more_info" -> "NEEDS_MORE_INFO"
      [] OTHER -> w

ToUpperCase(s) == [i \in 1..Len(s) |-> UpperWord(s[i])]

\* String.prototype.includes
Includes(s, needle) == \E i \in 1..Len(s) : s[i] = needle

\* a value is falsy: undefined, null or the empty string
Falsy(v) == v.t \in {"undefined", "null"} \/ (v.t = "string" /\ v.s = <<>>)

\* determineIfRealIssueFromXML: "throws" stands for the TypeError of calling
\* toUpperCase on a conclusion that is not a string
determineIfRealIssueFromXML(res) ==
    LET conclusion == Get(Get(res, "analysis"), "conclusion")
    IN IF Falsy(conclusion) THEN "null"
       ELSE IF conclusion.t # "string" THEN "throws"
       ELSE IF Includes(ToUpperCase(conclusion.s), "REAL_ISSUE") THEN "true"
       ELSE IF Includes(ToUpperCase(conclusion.s), "FALSE_POSITIVE") THEN "false"
       ELSE "null"

\* determineInitialStatus with the two decided verdicts exchanged
determineInitialStatusExchanged(isRealIssue) ==
    IF isRealIssue = "true" THEN "false_positive"
    ELSE IF isRealIssue = "false" THEN "in_progress"
    ELSE "analyzing"

\* determineInitialStatus
determineInitialStatus(isRealIssue) ==
    IF isRealIssue = "true" THEN "in_progress"
    ELSE IF isRealIssue = "false" THEN "false_positive"
    ELSE "analyzing"

-----------------------------------------------------------------------------
(* What the agent may answer *)

Block(detail, conclusion) ==
    <<Open("analysis"), Open("summary"), Word("prose"), Close("summary"),
      Open("detailed_analysis")>> \o detail \o
    <<Close("detailed_analysis"), Open("conclusion")>> \o conclusion \o
    <<Close("conclusion"), Close("analysis")>>

Str(text) == [isString |-> TRUE, text |-> text]
Obj(text) == [isString |-> FALSE, text |-> text]

Responses ==
    { Str(Block(<<Word("prose")>>, <<Word("REAL_ISSUE")>>)),
      Obj(<<Word("prose")>> \o
          Block(<<Word("prose")>>, <<Word("prose"), Word("REAL_ISSUE"), Word("prose")>>)
          \o <<Word("prose")>>),
      Str(Block(<<Word("prose")>>, <<Word("real_issue")>>)),
      Obj(Block(<<Word("prose")>>, <<Word("FALSE_POSITIVE")>>)),
      Str(Block(<<Word("prose")>>, <<Word("NEEDS_MORE_INFO")>>)),
      Str(Block(<<Word("prose")>>, <<Word("prose")>>)),
      Str(Block(<<Word("prose"), Amp, Word("prose")>>, <<Word("REAL_ISSUE")>>)),
      Str(Block(<<Word("prose"), Lt, Word("prose")>>, <<Word("FALSE_POSITIVE")>>)),
      Str(<<Open("analysis"), Open("summary"), Lt, Close("summary"), Close("analysis")>>),
      Str(<<Word("prose")>>) }

\* what the agent invocation (or getModel before it) may throw
ModelErrors ==
    { [isError |-> TRUE, message |-> "model overloaded"],
      [isError |-> TRUE, message |-> "ANTHROPIC_API_KEY environment variable is required"],
      [isError |-> FALSE, message |-> "a thrown string"] }

DbError == [isError |-> TRUE, message |-> "database unavailable"]
TypeErrorValue == [isError |-> TRUE, message |-> "toUpperCase is not a function"]

\* error instanceof Error ? error.message : "Unknown error"
ErrorMessage(e) == IF e.isError THEN e.message ELSE "Unknown error"

-----------------------------------------------------------------------------
(* AgentOrchestrator *)

NoRet == [kind |-> "none"]
NoResult == [conclusion |-> Undefined, isRealIssue |-> "null", errors |-> <<>>, logs |-> <<>>]

\* rows of prisma.alert with status "open" of one tenant
OpenAlerts(t) == {a \in AlertIds : alertTenant[a] = t /\ alertStatus[a] = "open"}

IssuesOf(t) == {i \in issues : i.tenantId = t}
BoundAlerts(issueId) == {b.alertId : b \in {x \in bindings : x.issueId = issueId}}

\* the call raises e to its caller
Raise(t, e) ==
    /\ pc' = [pc EXCEPT ![t] = "thrown"]
    /\ ret' = [ret EXCEPT ![t] = [kind |-> "throw", error |-> e]]

\* the try block of invoke if a failed parse were an exception that reaches
\* invoke's catch
InvokeTryParseThrows(r) ==
    LET analysisResult == parseXMLResponse(r)
        isRealIssue == determineIfRealIssueFromXML(analysisResult)
    IN IF isRealIssue = "throws" \/ analysisResult = Null
       THEN [conclusion |-> Undefined, isRealIssue |-> "null",
             errors |-> <<ErrorMessage(TypeErrorValue)>>, logs |-> <<>>]
       ELSE [conclusion |-> Get(analysisResult, "conclusion"),
             isRealIssue |-> isRealIssue, errors |-> <<>>, logs |-> <<>>]

\* the try block of invoke after the agent returned r
InvokeTry(r) ==
    LET analysisResult == parseXMLResponse(r)
        isRealIssue == determineIfRealIssueFromXML(analysisResult)
    IN IF isRealIssue = "throws"
       THEN [conclusion |-> Undefined, isRealIssue |-> "null",
             errors |-> <<ErrorMessage(TypeErrorValue)>>, logs |-> <<>>]
       ELSE [conclusion |-> Get(analysisResult, "conclusion"),
             isRealIssue |-> isRealIssue, errors |-> <<>>, logs |-> <<>>]

\* InvokeTry of every response the agent may give
InvokeTryOf == [r \in Responses |-> InvokeTry(r)]

\* the catch block of invoke
InvokeCatch(e) ==
    [conclusion |-> Undefined, isRealIssue |-> "null",
     errors |-> <<ErrorMessage(e)>>, logs |-> <<>>]

\* getRecentAlerts(tenantId) of the variant called with a tenant id
ReadAlerts(t) ==
    /\ pc[t] = "read"
    /\ \/ /\ Raise(t, DbError)
          /\ UNCHANGED batch
       \/ /\ OpenAlerts(t) = {}
          /\ pc' = [pc EXCEPT ![t] = "returned"]
          /\ ret' = [ret EXCEPT ![t] = [kind |-> "empty"]]
          /\ UNCHANGED batch
       \/ /\ OpenAlerts(t) # {}
          /\ batch' = [batch EXCEPT ![t] = OpenAlerts(t)]
          /\ pc' = [pc EXCEPT ![t] = "tools"]
          /\ UNCHANGED ret
    /\ UNCHANGED <<endpoint, bodyOk, dryRun, alertTenant, alertStatus, active, order,
                   idx, modelError, response, result, issueOf, issues, bindings, http>>
    /\ UNCHANGED <<chainVars, restVars>>

\* const tools = await this.getTenantTools(alerts[0].tenantId)
GetTenantTools(t) ==
    /\ pc[t] = "tools"
    /\ \/ Raise(t, DbError)
       \/ /\ pc' = [pc EXCEPT ![t] = "invoke"]
          /\ UNCHANGED ret
    /\ UNCHANGED <<endpoint, bodyOk, dryRun, alertTenant, alertStatus, active, order,
                   idx, batch, modelError, response, result, issueOf, issues,
                   bindings, http>>
    /\ UNCHANGED <<chainVars, restVars>>

\* InvokeStart as it would be if an Issue shell were created before the agent runs
InvokeStartWithShell(t) ==
    /\ pc[t] = "invoke"
    /\ pc' = [pc EXCEPT ![t] = "model"]
    /\ issues' = issues \cup
          {[id |-> Cardinality(issues) + 1, tenantId |-> t, status |-> "analyzing",
            aiConclusion |-> Undefined, isRealIssue |-> "null"]}
    /\ UNCHANGED <<endpoint, bodyOk, dryRun, alertTenant, alertStatus, active, order,
                   idx, batch, modelError, response, result, issueOf, bindings, ret, http>>
    /\ UNCHANGED <<chainVars, restVars>>

\* invoke up to "await this.getAgent().invoke(messages)"
InvokeStart(t) ==
    /\ pc[t] = "invoke"
    /\ pc' = [pc EXCEPT ![t] = "model"]
    /\ UNCHANGED <<endpoint, bodyOk, dryRun, alertTenant, alertStatus, active, order,
                   idx, batch, modelError, response, result, issueOf, issues,
                   bindings, ret, http>>
    /\ UNCHANGED <<chainVars, restVars>>

\* the agent returns: parse, classify, return the AnalysisResult
ModelReturns(t) ==
    /\ pc[t] = "model"
    /\ \E r \in Responses :
          /\ response' = [response EXCEPT ![t] = r]
          /\ result' = [result EXCEPT ![t] = InvokeTryOf[r]]
    /\ pc' = [pc EXCEPT ![t] = "create"]
    /\ UNCHANGED <<endpoint, bodyOk, dryRun, alertTenant, alertStatus, active, order,
                   idx, batch, modelError, issueOf, issues, bindings, ret, http>>
    /\ UNCHANGED <<chainVars, restVars>>

\* the agent (or getModel) throws: the catch block returns the error result
ModelThrows(t) ==
    /\ pc[t] = "model"
    /\ \E e \in ModelErrors :
          /\ modelError' = [modelError EXCEPT ![t] = e]
          /\ result' = [result EXCEPT ![t] = InvokeCatch(e)]
    /\ pc' = [pc EXCEPT ![t] = "create"]
    /\ UNCHANGED <<endpoint, bodyOk, dryRun, alertTenant, alertStatus, active, order,
                   idx, batch, response, issueOf, issues, bindings, ret, http>>
    /\ UNCHANGED <<chainVars, restVars>>

NextIssueId == Cardinality(issues) + 1

\* createIssue: prisma.issue.create
IssueCreate(t) ==
    /\ pc[t] = "create"
    /\ \/ /\ Raise(t, DbError)
          /\ UNCHANGED <<issues, issueOf>>
       \/ /\ issues' = issues \cup
                {[id |-> NextIssueId,
                  tenantId |-> t,
                  status |-> determineInitialStatus(result[t].isRealIssue),
                  aiConclusion |-> result[t].conclusion,
                  isRealIssue |-> result[t].isRealIssue]}
          /\ issueOf' = [issueOf EXCEPT ![t] = NextIssueId]
          /\ pc' = [pc EXCEPT ![t] = "bind"]
          /\ UNCHANGED ret
    /\ UNCHANGED <<endpoint, bodyOk, dryRun, alertTenant, alertStatus, active, order,
                   idx, batch, modelError, response, result, bindings, http>>
    /\ UNCHANGED <<chainVars, restVars>>

\* createIssue: prisma.issueAlertBinding.createMany
BindingCreateMany(t) ==
    /\ pc[t] = "bind"
    /\ \/ /\ Raise(t, DbError)
          /\ UNCHANGED bindings
       \/ /\ bindings' = bindings \cup
                {[issueId |-> issueOf[t], alertId |-> a] : a \in batch[t]}
          /\ pc' = [pc EXCEPT ![t] = "update"]
          /\ UNCHANGED ret
    /\ UNCHANGED <<endpoint, bodyOk, dryRun, alertTenant, alertStatus, active, order,
                   idx, batch, modelError, response, result, issueOf, issues, http>>
    /\ UNCHANGED <<chainVars, restVars>>

\* createIssue: prisma.alert.updateMany, then return issue.id
AlertUpdateMany(t) ==
    /\ pc[t] = "update"
    /\ \/ /\ Raise(t, DbError)
          /\ UNCHANGED alertStatus
       \/ /\ alertStatus' = [a \in AlertIds |->
                IF a \in batch[t] THEN "investigating" ELSE alertStatus[a]]
          /\ pc' = [pc EXCEPT ![t] = "log"]
          /\ UNCHANGED ret
    /\ UNCHANGED <<endpoint, bodyOk, dryRun, alertTenant, active, order, idx, batch,
                   modelError, response, result, issueOf, issues, bindings, http>>
    /\ UNCHANGED <<chainVars, restVars>>

\* logAgentSteps (prisma.issueLog.createMany unless logs is empty), then the
\* return statement of processTenantAlerts
LogAgentSteps(t) ==
    /\ pc[t] = "log"
    /\ \E ok \in IF result[t].logs = <<>> THEN {TRUE} ELSE BOOLEAN :
          IF ok
          THEN /\ pc' = [pc EXCEPT ![t] = "returned"]
               /\ ret' = [ret EXCEPT ![t] =
                     [kind |-> "result",
                      issueId |-> issueOf[t],
                      alertIds |-> batch[t],
                      conclusion |-> result[t].conclusion,
                      isRealIssue |-> result[t].isRealIssue,
                      errors |-> result[t].errors]]
          ELSE Raise(t, DbError)
    /\ UNCHANGED <<endpoint, bodyOk, dryRun, alertTenant, alertStatus, active, order,
                   idx, batch, modelError, response, result, issueOf, issues,
                   bindings, http>>
    /\ UNCHANGED <<chainVars, restVars>>

-----------------------------------------------------------------------------
(* The agent-process endpoints *)

NoHttp == [status |-> 0, results |-> <<>>]

Range(f) == {f[i] : i \in DOMAIN f}

\* sequences without repetition over a set
Perms(S) == {f \in UNION {[1..n -> S] : n \in 0..Cardinality(S)} :
                \A i, j \in DOMAIN f : i # j => f[i] # f[j]}

\* tenants that own at least one alert: Object.keys(groupAlertsByTenant(alerts))
TenantsWithAlerts(at) == {at[a] : a \in AlertIds}

\* GET: getRecentAlerts, groupAlertsByTenant, prisma.tenant.findMany
GetPrepare ==
    /\ endpoint = "GET" /\ http.status = 0 /\ idx = 0
    /\ \/ /\ http' = [status |-> 500, results |-> <<>>]
          /\ UNCHANGED idx
       \/ /\ idx' = 1
          /\ UNCHANGED http
    /\ UNCHANGED <<endpoint, bodyOk, dryRun, alertTenant, alertStatus, active, order,
                   pc, batch, modelError, response, result, issueOf, issues,
                   bindings, ret>>
    /\ UNCHANGED <<chainVars, restVars>>

\* GET: one iteration of the for-loop up to the await of processTenantAlerts
GetIterate ==
    /\ endpoint = "GET" /\ http.status = 0 /\ idx \in 1..Len(order)
    /\ pc[order[idx]] = "idle"
    /\ LET t == order[idx] IN
       \/ /\ t \notin active
          /\ idx' = idx + 1
          /\ UNCHANGED <<pc, batch, http>>
       \/ /\ t \in active /\ dryRun
          /\ http' = [http EXCEPT !.results =
                (t :> [kind |-> "summary", alertsFound |-> Cardinality(OpenAlerts(t))]) @@ @]
          /\ idx' = idx + 1
          /\ UNCHANGED <<pc, batch>>
       \/ /\ t \in active /\ ~dryRun
          /\ batch' = [batch EXCEPT ![t] = OpenAlerts(t)]
          /\ pc' = [pc EXCEPT ![t] = "tools"]
          /\ UNCHANGED <<idx, http>>
    /\ UNCHANGED <<endpoint, bodyOk, dryRun, alertTenant, alertStatus, active, order,
                   modelError, response, result, issueOf, issues, bindings, ret>>
    /\ UNCHANGED <<chainVars, restVars>>

\* GET: the awaited call returned: results[tenantId] = ..., next iteration
GetResume ==
    /\ endpoint = "GET" /\ http.status = 0 /\ idx \in 1..Len(order)
    /\ pc[order[idx]] = "returned"
    /\ http' = [http EXCEPT !.results = (order[idx] :> ret[order[idx]]) @@ @]
    /\ idx' = idx + 1
    /\ UNCHANGED <<endpoint, bodyOk, dryRun, alertTenant, alertStatus, active, order,
                   pc, batch, modelError, response, result, issueOf, issues,
                   bindings, ret>>
    /\ UNCHANGED <<chainVars, restVars>>

\* GET: the awaited call raised: the handler's catch answers 500
GetCatch ==
    /\ endpoint = "GET" /\ http.status = 0 /\ idx \in 1..Len(order)
    /\ pc[order[idx]] = "thrown"
    /\ http' = [status |-> 500, results |-> <<>>]
    /\ UNCHANGED <<endpoint, bodyOk, dryRun, alertTenant, alertStatus, active, order,
                   idx, pc, batch, modelError, response, result, issueOf, issues,
                   bindings, ret>>
    /\ UNCHANGED <<chainVars, restVars>>

\* GET: the loop is over: answer 200 with the results
GetRespond ==
    /\ endpoint = "GET" /\ http.status = 0 /\ idx = Len(order) + 1
    /\ http' = [http EXCEPT !.status = 200]
    /\ UNCHANGED <<endpoint, bodyOk, dryRun, alertTenant, alertStatus, active, order,
                   idx, pc, batch, modelError, response, result, issueOf, issues,
                   bindings, ret>>
    /\ UNCHANGED <<chainVars, restVars>>

\* POST: validate the body, then tenant_ids.map starts one task per tenant id
PostStart ==
    /\ endpoint = "POST" /\ http.status = 0 /\ idx = 0
    /\ IF ~bodyOk
       THEN /\ http' = [status |-> 400, results |-> <<>>]
            /\ UNCHANGED <<pc, idx>>
       ELSE /\ pc' = [t \in Tenants |-> IF t \in Range(order) THEN "read" ELSE pc[t]]
            /\ idx' = 1
            /\ UNCHANGED http
    /\ UNCHANGED <<endpoint, bodyOk, dryRun, alertTenant, alertStatus, active, order,
                   batch, modelError, response, result, issueOf, issues, bindings, ret>>
    /\ UNCHANGED <<chainVars, restVars>>

\* POST: what one task of tenant_ids.map resolves to (its own try/catch)
TaskValue(t) ==
    IF pc[t] = "thrown"
    THEN [kind |-> "failed", error |-> ErrorMessage(ret[t].error)]
    ELSE ret[t]

\* POST: Promise.allSettled has settled: answer 200 with every task's value
PostRespond ==
    /\ endpoint = "POST" /\ http.status = 0 /\ idx = 1
    /\ \A t \in Range(order) : pc[t] \in {"returned", "thrown"}
    /\ http' = [status |-> 200, results |-> [t \in Range(order) |-> TaskValue(t)]]
    /\ UNCHANGED <<endpoint, bodyOk, dryRun, alertTenant, alertStatus, active, order,
                   idx, pc, batch, modelError, response, result, issueOf, issues,
                   bindings, ret>>
    /\ UNCHANGED <<chainVars, restVars>>

-----------------------------------------------------------------------------
(* Specification of the endpoints and the orchestrator *)

ClassIdle ==
    /\ clsPc = "idle" /\ clsResult = Null /\ clsVerdict = "none"
    /\ clsIssue = [status |-> "none", isRealIssue |-> "none"]

SandboxIdle ==
    /\ sbImpl = "none" /\ sbPc = "idle" /\ sbSnippets = <<>>
    /\ sbGlobals = {} /\ sbInput = {} /\ sbHost = {}
    /\ sbSettled = [kind |-> "none"] /\ sbLive = {}
    /\ sbResults = <<>> /\ sbHostErrors = {}

\* no CacheEntry for a tenant
NoEntry == [skills |-> {}, timestamp |-> -1, gen |-> -1]
Callers == {"c1"}
NoCall ==
    [pc |-> "idle", tenant |-> "", now |-> 0, startGen |-> 0, entry |-> NoEntry,
     fetched |-> {}, fetchGen |-> 0, dbRead |-> FALSE, hit |-> FALSE, returned |-> {},
     dataGen |-> 0, seq |-> 0]

SkillsIdle ==
    /\ skDb = <<>> /\ skWrites = [t \in Tenants |-> 0]
    /\ skCache = [t \in Tenants |-> NoEntry]
    /\ skNow = 0 /\ skTicks = 0 /\ skGets = 0
    /\ skCall = [c \in Callers |-> NoCall]

\* external tools, and the cache keys the three agent tools use for them:
\* load_tool passes toolData.name, load_mcp_tools and call_mcp_tool the tool id
ExternalTools == {"toolA", "toolB"}
CacheKeys == [by : {"id", "name"}, tool : ExternalTools]
Invokers == {"p1", "p2"}
NoMcpCall == [pc |-> "idle", key |-> [by |-> "id", tool |-> "toolA"], client |-> 0]
NoTask == [pc |-> "none", client |-> 0]

McpIdle ==
    /\ mcCache = [k \in CacheKeys |-> 0] /\ mcClients = <<>>
    /\ mcCall = [p \in Invokers |-> NoMcpCall]
    /\ mcClosePc = "idle" /\ mcTasks = [k \in CacheKeys |-> NoTask]

\* overlapping endpoint runs, and the alerts of the one tenant they work on
Runs == {"run1", "run2"}
RunAlertIds == 1..2
NoRun == [pc |-> "idle", alerts |-> {}, issueId |-> 0]

RunsIdle ==
    /\ rnRun = [r \in Runs |-> NoRun]
    /\ rnAlerts = [a \in RunAlertIds |-> "absent"]
    /\ rnIssues = 0 /\ rnBindings = {}

NoMatchResult == [kind |-> "none"]

MatchIdle ==
    /\ mtVariant = "none" /\ mtAlerts = <<>> /\ mtBindings = {} /\ mtSkills = <<>>
    /\ mtPc = "idle" /\ mtTests = {} /\ mtScores = {}
    /\ mtResult = NoMatchResult /\ mtPrev = NoMatchResult

\* invalidate(t) has not been called
NoInval == [gen |-> -1, gets |-> -1]

InvIdle == skInval = [t \in Tenants |-> NoInval]

\* run_code executions; the console functions of the host process
Execs == {"e1", "e2", "e3"}
Methods == {"log", "error", "warn"}
HostConsole == [m \in Methods |-> "host"]
NoExec == [pc |-> "idle", original |-> HostConsole]
NoOutput == [method |-> "", to |-> "", finished |-> FALSE, allReturned |-> FALSE]

ConIdle ==
    /\ conConsole = HostConsole
    /\ conExec = [e \in Execs |-> NoExec]
    /\ conOutput = NoOutput

MoreIdle == RunsIdle /\ MatchIdle /\ InvIdle /\ ConIdle

RestIdle == ClassIdle /\ SandboxIdle /\ SkillsIdle /\ McpIdle /\ MoreIdle

ChainIdle ==
    /\ entry = "none" /\ cfgMax = 0 /\ hasLog = FALSE /\ toolCallId = ""
    /\ chain = <<>> /\ layer = 0 /\ dir = "idle" /\ val = [kind |-> "none"]
    /\ attempt = 0 /\ calls = <<>> /\ retryLogs = 0 /\ auditLog = <<>>
    /\ path = <<>> /\ received = [kind |-> "none"]

Init ==
    /\ endpoint \in {"GET", "POST"}
    /\ alertTenant \in [AlertIds -> Tenants]
    /\ alertStatus = [a \in AlertIds |-> "open"]
    /\ IF endpoint = "GET"
       THEN /\ bodyOk = TRUE
            /\ dryRun \in BOOLEAN
            /\ active \in SUBSET Tenants
            /\ order \in {o \in Perms(Tenants) : Range(o) = TenantsWithAlerts(alertTenant)}
       ELSE /\ bodyOk \in BOOLEAN
            /\ dryRun = FALSE
            /\ active = Tenants
            /\ order \in Perms(Tenants)
    /\ idx = 0
    /\ pc = [t \in Tenants |-> "idle"]
    /\ batch = [t \in Tenants |-> {}]
    /\ modelError = [t \in Tenants |-> NoError]
    /\ response = [t \in Tenants |-> Str(<<>>)]
    /\ result = [t \in Tenants |-> NoResult]
    /\ issueOf = [t \in Tenants |-> 0]
    /\ issues = {}
    /\ bindings = {}
    /\ ret = [t \in Tenants |-> NoRet]
    /\ http = NoHttp
    /\ ChainIdle
    /\ RestIdle

Next ==
    \/ GetPrepare
    \/ GetIterate
    \/ GetResume
    \/ GetCatch
    \/ GetRespond
    \/ PostStart
    \/ PostRespond
    \/ \E t \in Tenants :
          \/ ReadAlerts(t)
          \/ GetTenantTools(t)
          \/ InvokeStart(t)
          \/ ModelReturns(t)
          \/ ModelThrows(t)
          \/ IssueCreate(t)
          \/ BindingCreateMany(t)
          \/ AlertUpdateMany(t)
          \/ LogAgentSteps(t)

Spec == Init /\ [][Next]_vars

-----------------------------------------------------------------------------
(* Properties of the endpoints and the orchestrator *)

Terminated(t) == pc[t] \in {"returned", "thrown"}

\* the agent invocation of t's call has completed (returned or thrown)
ModelFinished(t) == modelError[t] # NoError \/ response[t] \in Responses

\* the agent invocation of t's call has begun
ModelInvoked(t) ==
    \/ pc[t] \in {"model", "create", "bind", "update", "log"}
    \/ Terminated(t) /\ ModelFinished(t)

\* C1: once processTenantAlerts has terminated on a non-empty batch (the model
\* call made, whatever its outcome and that of each persistence step), exactly
\* one Issue is persisted for the batch and the alerts bound to it are the
\* batch's alerts.
C1_OneIssueBoundToBatch ==
    \A t \in Tenants :
        (Terminated(t) /\ batch[t] # {} /\ ModelFinished(t)) =>
            /\ Cardinality(IssuesOf(t)) = 1
            /\ \A i \in IssuesOf(t) : BoundAlerts(i.id) = batch[t]

\* C2: processTenantAlerts never raises to its caller: on a batch of alerts,
\* every failure of a step it performs ends in a returned result value.
C2_NeverRaises == \A t \in Tenants : batch[t] # {} => pc[t] # "thrown"

\* C3 (as claimed): from model invocation onward a persisted Issue for the
\* batch already exists.
C3_IssueExistsFromModelInvocation ==
    \A t \in Tenants : ModelInvoked(t) => IssuesOf(t) # {}

\* C3 (amended): the Issue of a batch is created only after the model
\* invocation has completed (returned or thrown); up to and during the model
\* invocation, and until createIssue runs, no Issue for the batch exists.
C3_IssueOnlyAfterModelInvocation ==
    \A t \in Tenants :
        /\ IssuesOf(t) # {} => ModelFinished(t)
        /\ pc[t] \in {"idle", "read", "tools", "invoke", "model", "create"}
              => IssuesOf(t) = {}

\* C3 witness: a run whose model invocation threw, with its Issue persisted afterwards
C3_Witness == \E t \in Tenants : modelError[t] # NoError /\ IssuesOf(t) # {}

\* C4: whenever the model invocation throws, an Issue with isRealIssue = null
\* and status = analyzing is still persisted for the batch and the result
\* returned to the caller carries the exception's message.
C4_ModelFailureStillPersists ==
    \A t \in Tenants :
        (Terminated(t) /\ modelError[t] # NoError) =>
            /\ \E i \in IssuesOf(t) : i.isRealIssue = "null" /\ i.status = "analyzing"
            /\ pc[t] = "returned"
            /\ modelError[t].isError => Includes(ret[t].errors, modelError[t].message)

\* the tenants whose batches one invocation of the endpoint is to process
Handled ==
    IF endpoint = "GET" THEN {t \in Range(order) : t \in active /\ ~dryRun}
    ELSE IF bodyOk THEN Range(order) ELSE {}

\* C5: when the endpoint has answered, a failure in one tenant's batch has not
\* prevented any other tenant's batch from being processed, and the other
\* tenants' results are in the answer.
C5_TenantFailuresIsolated ==
    http.status # 0 =>
        \A f \in Handled :
            pc[f] = "thrown" =>
                \A t \in Handled \ {f} :
                    Terminated(t) /\ t \in DOMAIN http.results

\* the <analysis> block of a response and the text of its conclusion element
BlockOf(r) == XmlMatch(ResponseText(r))
ConclusionText(r) == TextOf(BlockOf(r), <<RootTag, "conclusion">>)

\* the verdict the conclusion text calls for: "true" for REAL_ISSUE, "false"
\* for FALSE_POSITIVE, "null" when it names neither; "any" leaves it open
ClaimedVerdict(r) ==
    LET c == ConclusionText(r)
        u == ToUpperCase(c)
    IN IF Includes(c, "REAL_ISSUE") /\ ~Includes(u, "FALSE_POSITIVE") THEN "true"
       ELSE IF Includes(c, "FALSE_POSITIVE") /\ ~Includes(u, "REAL_ISSUE") THEN "false"
       ELSE IF ~Includes(u, "REAL_ISSUE") /\ ~Includes(u, "FALSE_POSITIVE") THEN "null"
       ELSE "any"

\* responses holding one well-formed <analysis> block, with the claimed verdict
ClaimedVerdictOf ==
    [r \in {x \in Responses : BlockOf(x) # <<>> /\ ParseOk(BlockOf(x))} |->
        ClaimedVerdict(r)]

\* C10: for a response with one well-formed <analysis> block the persisted
\* isRealIssue is true when the conclusion contains REAL_ISSUE, false when it
\* contains FALSE_POSITIVE, and null otherwise.
C10_PersistedVerdictFollowsConclusion ==
    \A i \in issues :
        response[i.tenantId] \in DOMAIN ClaimedVerdictOf =>
            \/ ClaimedVerdictOf[response[i.tenantId]] = "any"
            \/ i.isRealIssue = ClaimedVerdictOf[response[i.tenantId]]

-----------------------------------------------------------------------------
(* The tool-call interceptor chain *)

\* createToolErrorhandlerMiddleware = (maxAttempts: number = 1) => ...
DefaultMaxAttempts == 1
\* createToolErrorhandlerMiddleware(config.maxAttempts || 3)
AgentDefaultMaxAttempts == 3

Omitted == [given |-> FALSE, n |-> 0]
Given(n) == [given |-> TRUE, n |-> n]

\* the maxAttempts the retry loop runs with
MaxAttempts ==
    IF entry = "createAgent"
    THEN (IF cfgMax.given /\ cfgMax.n # 0 THEN cfgMax.n ELSE AgentDefaultMaxAttempts)
    ELSE (IF cfgMax.given THEN cfgMax.n ELSE DefaultMaxAttempts)

\* createAgent with the two default middlewares pushed in the opposite order
CreateAgentMiddlewareSwapped(log) ==
    (IF log THEN <<"logging">> ELSE <<>>) \o <<"retry">>

\* createAgent: defaultMiddleware = [retry], then push(logging) if config.log;
\* the array [...defaultMiddleware, ...middleware] is handed to langchain
CreateAgentMiddleware(log) ==
    <<"retry">> \o (IF log THEN <<"logging">> ELSE <<>>)

ToolResults == {"r1", "r2"}
ToolErrors ==
    { [isError |-> TRUE, message |-> "e1"],
      [isError |-> TRUE, message |-> "e2"],
      [isError |-> FALSE, message |-> "s"] }

\* error instanceof Error ? error.message : String(error)
ToolErrorMessage(e) == e.message

\* new ToolMessage({content: `Fail, ...Error:\n${errorMessage}`,
\*                  tool_call_id: request.toolCall.id || "unknown"})
ToolMessage(errorMessage, id) ==
    [kind |-> "message",
     content |-> <<"Fail, please fix, or try other tools,Error", errorMessage>>,
     tool_call_id |-> IF id = "" THEN "unknown" ELSE id]

MaxRetryError == [isError |-> TRUE, message |-> "max retry attempts exceeded"]

\* langchain nests the wrapToolCall hooks in array order: chain[1] is the
\* outermost wrapper, chain[i]'s handler is chain[i+1], the last one's handler
\* is the tool itself
ToolLayer == Len(chain) + 1
AtWrapper(name) == layer \in 1..Len(chain) /\ chain[layer] = name

\* the reasoning turn issues a tool call
TurnCalls ==
    /\ dir = "idle" /\ entry # "none"
    /\ dir' = "down" /\ layer' = 1
    /\ UNCHANGED <<entry, cfgMax, hasLog, toolCallId, chain, val, attempt, calls,
                   retryLogs, auditLog, path, received>>
    /\ UNCHANGED <<orchVars, restVars>>

\* retry wrapToolCall is entered: let attempt = 0
RetryEnter ==
    /\ dir = "down" /\ AtWrapper("retry")
    /\ attempt' = 0 /\ dir' = "loop"
    /\ path' = Append(path, "retry")
    /\ UNCHANGED <<entry, cfgMax, hasLog, toolCallId, chain, layer, val, calls,
                   retryLogs, auditLog, received>>
    /\ UNCHANGED <<orchVars, restVars>>

\* for (...; attempt < maxAttempts; ...): await handler(request), or leave
\* the loop and throw new Error("max retry attempts exceeded")
RetryLoop ==
    /\ dir = "loop" /\ AtWrapper("retry")
    /\ IF attempt < MaxAttempts
       THEN /\ dir' = "down" /\ layer' = layer + 1
            /\ UNCHANGED val
       ELSE /\ val' = [kind |-> "throw", error |-> MaxRetryError]
            /\ dir' = "up" /\ layer' = layer - 1
    /\ UNCHANGED <<entry, cfgMax, hasLog, toolCallId, chain, attempt, calls,
                   retryLogs, auditLog, path, received>>
    /\ UNCHANGED <<orchVars, restVars>>

\* a retry wrapper that goes round the loop again after a successful attempt
RetryReturnKeepsGoing ==
    /\ dir = "up" /\ AtWrapper("retry") /\ val.kind # "throw"
    /\ attempt' = attempt + 1 /\ dir' = "loop"
    /\ UNCHANGED <<entry, cfgMax, hasLog, toolCallId, chain, layer, val, calls,
                   retryLogs, auditLog, path, received>>
    /\ UNCHANGED <<orchVars, restVars>>

\* retry: the handler returned: return result
RetryReturn ==
    /\ dir = "up" /\ AtWrapper("retry") /\ val.kind # "throw"
    /\ layer' = layer - 1
    /\ UNCHANGED <<entry, cfgMax, hasLog, toolCallId, chain, dir, val, attempt, calls,
                   retryLogs, auditLog, path, received>>
    /\ UNCHANGED <<orchVars, restVars>>

\* retry: the handler threw: on the last attempt return the ToolMessage,
\* otherwise console.log the retry and go round the loop (attempt++)
RetryCatch ==
    /\ dir = "up" /\ AtWrapper("retry") /\ val.kind = "throw"
    /\ IF attempt = MaxAttempts - 1
       THEN /\ val' = ToolMessage(ToolErrorMessage(val.error), toolCallId)
            /\ layer' = layer - 1
            /\ UNCHANGED <<dir, attempt, retryLogs>>
       ELSE /\ retryLogs' = retryLogs + 1
            /\ attempt' = attempt + 1
            /\ dir' = "loop"
            /\ UNCHANGED <<layer, val>>
    /\ UNCHANGED <<entry, cfgMax, hasLog, toolCallId, chain, calls, auditLog, path,
                   received>>
    /\ UNCHANGED <<orchVars, restVars>>

\* logging wrapToolCall is entered: log the start record, await handler(request)
LoggingEnter ==
    /\ dir = "down" /\ AtWrapper("logging")
    /\ auditLog' = Append(auditLog, [phase |-> "start", payload |-> ""])
    /\ path' = Append(path, "logging")
    /\ layer' = layer + 1
    /\ UNCHANGED <<entry, cfgMax, hasLog, toolCallId, chain, dir, val, attempt, calls,
                   retryLogs, received>>
    /\ UNCHANGED <<orchVars, restVars>>

\* logging: the handler returned: log the result record, return result
LoggingReturn ==
    /\ dir = "up" /\ AtWrapper("logging") /\ val.kind # "throw"
    /\ auditLog' = Append(auditLog,
          [phase |-> "result",
           payload |-> IF val.kind = "result" THEN val.value ELSE val.content])
    /\ layer' = layer - 1
    /\ UNCHANGED <<entry, cfgMax, hasLog, toolCallId, chain, dir, val, attempt, calls,
                   retryLogs, path, received>>
    /\ UNCHANGED <<orchVars, restVars>>

\* logging: the handler threw e: log the error record, throw e
LoggingCatch ==
    /\ dir = "up" /\ AtWrapper("logging") /\ val.kind = "throw"
    /\ auditLog' = Append(auditLog,
          [phase |-> "error", payload |-> ToolErrorMessage(val.error)])
    /\ layer' = layer - 1
    /\ UNCHANGED <<entry, cfgMax, hasLog, toolCallId, chain, dir, val, attempt, calls,
                   retryLogs, path, received>>
    /\ UNCHANGED <<orchVars, restVars>>

\* the tool itself runs: it returns a result or throws
ToolRuns ==
    /\ dir = "down" /\ layer = ToolLayer
    /\ \/ \E r \in ToolResults :
             /\ val' = [kind |-> "result", value |-> r]
             /\ calls' = Append(calls, [kind |-> "ok", value |-> r, error |-> NoError])
       \/ \E e \in ToolErrors :
             /\ val' = [kind |-> "throw", error |-> e]
             /\ calls' = Append(calls, [kind |-> "fail", value |-> "", error |-> e])
    /\ path' = Append(path, "tool")
    /\ dir' = "up" /\ layer' = layer - 1
    /\ UNCHANGED <<entry, cfgMax, hasLog, toolCallId, chain, attempt, retryLogs,
                   auditLog, received>>
    /\ UNCHANGED <<orchVars, restVars>>

\* the outermost wrapper has returned or thrown to the reasoning turn
TurnReceives ==
    /\ dir = "up" /\ layer = 0
    /\ received' = val /\ dir' = "done"
    /\ UNCHANGED <<entry, cfgMax, hasLog, toolCallId, chain, layer, val, attempt, calls,
                   retryLogs, auditLog, path>>
    /\ UNCHANGED <<orchVars, restVars>>

OrchIdle ==
    /\ endpoint = "none" /\ bodyOk = TRUE /\ dryRun = FALSE
    /\ alertTenant = [a \in AlertIds |-> "t1"]
    /\ alertStatus = [a \in AlertIds |-> "open"]
    /\ active = {} /\ order = <<>> /\ idx = 0
    /\ pc = [t \in Tenants |-> "idle"]
    /\ batch = [t \in Tenants |-> {}]
    /\ modelError = [t \in Tenants |-> NoError]
    /\ response = [t \in Tenants |-> Str(<<>>)]
    /\ result = [t \in Tenants |-> NoResult]
    /\ issueOf = [t \in Tenants |-> 0]
    /\ issues = {} /\ bindings = {}
    /\ ret = [t \in Tenants |-> NoRet]
    /\ http = NoHttp

InitChain ==
    /\ OrchIdle
    /\ RestIdle
    /\ entry \in {"direct", "createAgent"}
    /\ cfgMax \in {Omitted} \cup {Given(n) : n \in -1..MaxAttemptsBound}
    /\ hasLog \in (IF entry = "createAgent" THEN BOOLEAN ELSE {FALSE})
    /\ toolCallId \in {"call_1", ""}
    /\ chain = IF entry = "createAgent" THEN CreateAgentMiddleware(hasLog) ELSE <<"retry">>
    /\ layer = 0 /\ dir = "idle" /\ val = [kind |-> "none"]
    /\ attempt = 0 /\ calls = <<>> /\ retryLogs = 0 /\ auditLog = <<>>
    /\ path = <<>> /\ received = [kind |-> "none"]

NextChain ==
    \/ TurnCalls
    \/ RetryEnter
    \/ RetryLoop
    \/ RetryReturn
    \/ RetryCatch
    \/ LoggingEnter
    \/ LoggingReturn
    \/ LoggingCatch
    \/ ToolRuns
    \/ TurnReceives

SpecChain == InitChain /\ [][NextChain]_vars

-----------------------------------------------------------------------------
(* Properties of the interceptor chain *)

LastCall == calls[Len(calls)]
Delivered == dir = "done"

\* C6: for every maxAttempts the retry factory accepts (default, 0, negative,
\* positive) and every handler behaviour, the retry wrapToolCall never throws:
\* when every attempt has failed the turn gets the ToolMessage carrying the
\* last error message and the request's tool_call_id, and the trailing
\* "max retry attempts exceeded" is never thrown.
C6_WrapToolCallNeverThrows ==
    Delivered =>
        /\ received.kind # "throw"
        /\ received # [kind |-> "throw", error |-> MaxRetryError]
        /\ (calls # <<>> /\ LastCall.kind = "fail") =>
               received = ToolMessage(ToolErrorMessage(LastCall.error), toolCallId)

\* C7: with maxAttempts = N >= 1 the handler is called at most N times, no
\* call follows a successful one (so the calls are k failures and then at
\* most one success), and when the call after k < N failures succeeds the
\* turn gets exactly that result and exactly k retries have been logged.
C7_BoundedRetriesThenSuccess ==
    MaxAttempts >= 1 =>
        /\ Len(calls) <= MaxAttempts
        /\ \A i \in 1..(Len(calls) - 1) : calls[i].kind = "fail"
        /\ (Delivered /\ calls # <<>> /\ LastCall.kind = "ok") =>
               /\ received = [kind |-> "result", value |-> LastCall.value]
               /\ retryLogs = Len(calls) - 1

\* a tool that failed on attempts 1 and 2 and succeeded on attempt 3 of 3
C7_Witness ==
    /\ Delivered /\ MaxAttempts = 3 /\ Len(calls) = 3
    /\ LastCall.kind = "ok" /\ retryLogs = 2
    /\ received = [kind |-> "result", value |-> LastCall.value]

C9_EveryAttemptLoggedFinalOutcomeOnly ==
    (entry = "createAgent" /\ hasLog) =>
        /\ (layer <= 1) =>
              /\ Len(auditLog) = 2 * Len(calls)
              /\ \A i \in 1..Len(calls) :
                    /\ auditLog[2 * i - 1].phase = "start"
                    /\ auditLog[2 * i].phase =
                          (IF calls[i].kind = "ok" THEN "result" ELSE "error")
        /\ (dir = "up" /\ layer = 1 /\ val.kind = "throw") =>
              val.error = LastCall.error
        /\ Delivered =>
              \/ /\ calls # <<>> /\ LastCall.kind = "ok"
                 /\ received = [kind |-> "result", value |-> LastCall.value]
              \/ /\ calls # <<>> /\ LastCall.kind = "fail"
                 /\ received = ToolMessage(ToolErrorMessage(LastCall.error), toolCallId)

-----------------------------------------------------------------------------
(* Conclusion classification and the status of the Issue written from it *)

\* longest conclusion text tried, in words
MaxWords == 3

KnownTokens == {"REAL_ISSUE", "FALSE_POSITIVE", "NEEDS_MORE_INFO"}
ConclusionWords ==
    {"REAL_ISSUE", "real_issue", "FALSE_POSITIVE", "false_positive",
     "NEEDS_MORE_INFO", "needs_more_info", "prose"}

StringValue(text) == [t |-> "string", s |-> text]

\* an AnalysisResult whose analysis.conclusion is v
AnalysisOf(v) ==
    [t |-> "object",
     m |-> [a \in {"analysis"} |->
              [t |-> "object", m |-> [c \in {"conclusion"} |-> v]]]]

\* the values determineIfRealIssueFromXML may be handed: null, a result with
\* no analysis, and results whose conclusion is absent, a text, or an element
AnalysisResults ==
    {Null, [t |-> "object", m |-> <<>>], AnalysisOf(Undefined),
     AnalysisOf([t |-> "object", m |-> <<>>])}
    \cup {AnalysisOf(StringValue(w)) :
            w \in UNION {[1..n -> ConclusionWords] : n \in 0..MaxWords}}

otherThanClass == <<orchVars, chainVars, sandboxVars, skillVars, mcpVars, moreVars>>

\* invoke: const analysisResult = this.parseXMLResponse(response)
ClassifyParsed ==
    /\ clsPc = "idle"
    /\ \E r \in AnalysisResults : clsResult' = r
    /\ clsPc' = "parsed"
    /\ UNCHANGED <<clsVerdict, clsIssue>>
    /\ UNCHANGED otherThanClass

\* invoke: isRealIssue: this.determineIfRealIssueFromXML(analysisResult); a
\* TypeError thrown by it is caught by invoke, which returns isRealIssue: null
ClassifyInvoke ==
    /\ clsPc = "parsed"
    /\ clsVerdict' = (IF determineIfRealIssueFromXML(clsResult) = "throws"
                      THEN "null" ELSE determineIfRealIssueFromXML(clsResult))
    /\ clsPc' = "classified"
    /\ UNCHANGED <<clsResult, clsIssue>>
    /\ UNCHANGED otherThanClass

\* createIssue: status: determineInitialStatus(result.isRealIssue ?? null),
\*              isRealIssue: result.isRealIssue ?? null
ClassifyCreateIssue ==
    /\ clsPc = "classified"
    /\ clsIssue' = [status |-> determineInitialStatus(clsVerdict),
                    isRealIssue |-> clsVerdict]
    /\ clsPc' = "persisted"
    /\ UNCHANGED <<clsResult, clsVerdict>>
    /\ UNCHANGED otherThanClass

InitClassify ==
    /\ OrchIdle /\ ChainIdle /\ RestIdle

NextClassify ==
    \/ ClassifyParsed
    \/ ClassifyInvoke
    \/ ClassifyCreateIssue

SpecClassify == InitClassify /\ [][NextClassify]_vars

\* the conclusion text of the classified result, when it has one
HasConclusionText ==
    /\ clsResult.t = "object" /\ "analysis" \in DOMAIN clsResult.m
    /\ clsResult.m["analysis"].m["conclusion"].t = "string"
ClsText == clsResult.m["analysis"].m["conclusion"].s
TokensIn(text) == {k \in KnownTokens : Includes(ToUpperCase(text), k)}

\* C11: classification returns null for every conclusion text that contains
\* none of the three known tokens or more than one of them, in any letter
\* case; it never returns false for an absent or ambiguous conclusion.
C11_AbsentOrAmbiguousIsNull ==
    (clsPc \in {"classified", "persisted"}) =>
        /\ (HasConclusionText /\ Cardinality(TokensIn(ClsText)) # 1) => clsVerdict = "null"
        /\ ~HasConclusionText => clsVerdict = "null"

\* C12: the Issue written has status in_progress exactly when isRealIssue is
\* true, false_positive exactly when it is false, analyzing exactly when null.
C12_StatusFollowsVerdict ==
    clsPc = "persisted" =>
        /\ clsIssue.status = "in_progress" <=> clsIssue.isRealIssue = "true"
        /\ clsIssue.status = "false_positive" <=> clsIssue.isRealIssue = "false"
        /\ clsIssue.status = "analyzing" <=> clsIssue.isRealIssue = "null"

\* an Issue written from a lower-case real_issue conclusion
C12_Witness ==
    /\ clsPc = "persisted" /\ HasConclusionText
    /\ ClsText = <<"prose", "real_issue">>
    /\ clsIssue = [status |-> "in_progress", isRealIssue |-> "true"]

-----------------------------------------------------------------------------
(* The run_code sandbox: executeInVM (node vm) and executeInV8Sandbox *)

\* number of execute calls made one after the other
MaxCalls == 2

\* JavaScript values a snippet may return
Prim(v) == [t |-> "prim", v |-> v, success |-> "none", error |-> "none"]
ObjWithSuccess(sv, e) == [t |-> "obj", v |-> "object", success |-> sv, error |-> e]
JsUndefined == Prim("undefined")
ReturnValues ==
    {Prim("8"), Prim("0"), Prim("false"), Prim(""),
     ObjWithSuccess("false", "none"), ObjWithSuccess("true", "none")}
ThrownMessages == {"Test error", "connection timeout"}

\* a value is falsy in JavaScript
JsFalsy(v) == v.t = "prim" /\ v.v \in {"undefined", "0", "false", ""}

\* What a snippet does.  effect: what it writes or starts before finishing;
\* does: how it finishes.
SnippetEffects ==
    {"none", "setGlobal", "setHostObject", "setInput", "startInterval", "timerThrows"}
SnippetEnds ==
    {[k |-> "return", v |-> v, msg |-> ""] : v \in ReturnValues}
    \cup {[k |-> "read", v |-> Prim(w), msg |-> ""] : w \in {"global", "hostObject", "input"}}
    \cup {[k |-> "throw", v |-> JsUndefined, msg |-> m] : m \in ThrownMessages}
    \cup {[k |-> e, v |-> JsUndefined, msg |-> ""] : e \in {"syncLoop", "asyncHang", "memHog"}}
\* snippets that write or start something and return, and snippets that only finish
Snippets ==
    {sn \in [effect : SnippetEffects, does : SnippetEnds] :
        sn.effect = "none" \/ sn.does = [k |-> "return", v |-> Prim("8"), msg |-> ""]}

\* the scopes a snippet can write to and read from
Scopes(globals, input, host) == [globals |-> globals, input |-> input, host |-> host]
FreshScopes == Scopes({}, {}, {})

\* The scopes after the snippet's writes.  In the vm implementation JSON,
\* Math, Object, Array, ... are the host's own objects put into the context;
\* in the v8 sandbox they belong to the sandbox's own isolate.
AfterEffect(impl, sn, sc) ==
    CASE sn.effect = "setGlobal" -> Scopes(sc.globals \cup {"secret"}, sc.input, sc.host)
      [] sn.effect = "setInput" -> Scopes(sc.globals, sc.input \cup {"secret"}, sc.host)
      [] sn.effect = "setHostObject" ->
            IF impl = "vm" THEN Scopes(sc.globals, sc.input, sc.host \cup {"Math.secret"})
            ELSE Scopes(sc.globals \cup {"Math.secret"}, sc.input, sc.host)
      [] OTHER -> sc

Lookup(S, name) == IF name \in S THEN Prim("secret") ELSE JsUndefined

\* the value a finishing snippet returns, read in the scopes after its writes
ReturnedValue(impl, sn, sc) ==
    IF sn.does.k = "return" THEN sn.does.v
    ELSE IF sn.does.v = Prim("global") THEN Lookup(sc.globals, "secret")
    ELSE IF sn.does.v = Prim("input") THEN Lookup(sc.input, "secret")
    ELSE IF impl = "vm" THEN Lookup(sc.host, "Math.secret")
    ELSE Lookup(sc.globals, "Math.secret")

\* RunCodeResult
NoErr == [cat |-> "none", msg |-> ""]
Success(v) == [success |-> "true", result |-> v, error |-> NoErr]
Failure(cat, msg) == [success |-> "false", result |-> JsUndefined, error |-> [cat |-> cat, msg |-> msg]]

\* error.message.includes("timeout") / includes("memory")
MsgIncludes(msg, word) ==
    IF word = "timeout"
    THEN msg \in {"connection timeout", "Execution timeout: code took longer than",
                  "timeout: ms"}
    ELSE msg \in {"memory limit reached"}

\* executeInVM: what the async wrapper around the snippet resolves to: the
\* snippet's return value, or {success: false, error: message} from the
\* wrapper's own catch
VmWrapped(sn, sc) ==
    IF sn.does.k = "throw" THEN ObjWithSuccess("false", sn.does.msg)
    ELSE ReturnedValue("vm", sn, sc)

\* executeInVM after the race: if (result && result.success === false) ...
\* else { success: true, result: result || undefined }
VmBuildResult(r) ==
    IF ~JsFalsy(r) /\ r.success = "false" THEN Failure("raw", r.error)
    ELSE Success(IF JsFalsy(r) THEN JsUndefined ELSE r)

\* executeInVM catch block
VmCatchResult(msg) ==
    IF MsgIncludes(msg, "timeout")
    THEN Failure("timeout", "Execution timeout: code took longer than")
    ELSE Failure("raw", msg)

\* executeInV8Sandbox: what the code handed to the sandbox passes to setResult
V8Wrapped(sn, sc) ==
    IF sn.does.k = "throw" THEN Failure("raw", sn.does.msg)
    ELSE Success(ReturnedValue("v8", sn, sc))

\* executeInV8Sandbox catch block
V8CatchResult(msg) ==
    IF MsgIncludes(msg, "timeout")
    THEN Failure("timeout", "Execution timeout: code took longer than")
    ELSE IF MsgIncludes(msg, "memory")
    THEN Failure("memory", "Memory limit exceeded")
    ELSE Failure("raw", msg)

otherThanSandbox == <<orchVars, chainVars, classVars, skillVars, mcpVars, moreVars>>

CallNo == Len(sbSnippets)
Snippet == sbSnippets[CallNo]
CurScopes == Scopes(sbGlobals, sbInput, sbHost)
Item(what) == [call |-> CallNo, what |-> what]

\* the tool is invoked: a fresh sandbox object and INPUT for this call
SbInvoke ==
    /\ sbPc = "idle" /\ sbImpl # "none" /\ CallNo < MaxCalls
    /\ \E sn \in Snippets :
          /\ sbImpl = "vm" => sn.does.k # "memHog"
          /\ sbSnippets' = Append(sbSnippets, sn)
    /\ sbGlobals' = {} /\ sbInput' = {}
    /\ sbSettled' = [kind |-> "none"]
    /\ sbPc' = IF sbImpl = "vm" THEN "vmArm" ELSE "v8Create"
    /\ UNCHANGED <<sbImpl, sbHost, sbLive, sbResults, sbHostErrors>>
    /\ UNCHANGED otherThanSandbox

\* executeInVM: timeoutPromise = new Promise((_, reject) => setTimeout(...))
VmArmTimeout ==
    /\ sbPc = "vmArm"
    /\ sbLive' = sbLive \cup {Item("timeoutTimerUnraced")}
    /\ sbPc' = "vmRun"
    /\ UNCHANGED <<sbImpl, sbSnippets, sbGlobals, sbInput, sbHost, sbSettled,
                   sbResults, sbHostErrors>>
    /\ UNCHANGED otherThanSandbox

\* what the snippet's effect leaves running on the host's timers
VmStarted(sn) ==
    (IF sn.effect = "startInterval" THEN {Item("snippetInterval")} ELSE {})
    \cup (IF sn.effect = "timerThrows" THEN {Item("throwingTimer")} ELSE {})
    \cup (IF sn.does.k = "asyncHang" THEN {Item("snippetRun")} ELSE {})

\* executeInVM: script.runInContext(context, {timeout}) runs the snippet up
\* to its first await; a synchronous loop is cut off by the vm timeout
VmRunInContext ==
    /\ sbPc = "vmRun"
    /\ LET sc == AfterEffect("vm", Snippet, CurScopes)
       IN /\ sbGlobals' = sc.globals /\ sbInput' = sc.input /\ sbHost' = sc.host
          /\ IF Snippet.does.k = "syncLoop"
             THEN /\ sbSettled' = [kind |-> "caught", msg |-> "Script execution timed out"]
                  /\ sbLive' = sbLive \cup (VmStarted(Snippet) \ {Item("snippetRun")})
                  /\ sbPc' = "vmCatch"
             ELSE /\ sbSettled' = (IF Snippet.does.k = "asyncHang"
                                   THEN [kind |-> "pending"]
                                   ELSE [kind |-> "value", v |-> VmWrapped(Snippet, sc)])
                  /\ sbLive' = sbLive \cup VmStarted(Snippet)
                  /\ sbPc' = "vmRace"
    /\ UNCHANGED <<sbImpl, sbSnippets, sbResults, sbHostErrors>>
    /\ UNCHANGED otherThanSandbox

\* executeInVM: await Promise.race([executionPromise, timeoutPromise])
VmRace ==
    /\ sbPc = "vmRace"
    /\ IF sbSettled.kind = "value"
       THEN /\ sbLive' = (sbLive \ {Item("timeoutTimerUnraced")}) \cup {Item("timeoutTimer")}
            /\ sbPc' = "vmBuild"
            /\ UNCHANGED sbSettled
       ELSE /\ sbLive' = sbLive \ {Item("timeoutTimerUnraced")}
            /\ sbSettled' = [kind |-> "caught",
                             msg |-> "Execution timeout: code took longer than"]
            /\ sbPc' = "vmCatch"
    /\ UNCHANGED <<sbImpl, sbSnippets, sbGlobals, sbInput, sbHost, sbResults, sbHostErrors>>
    /\ UNCHANGED otherThanSandbox

\* executeInVM: build the result from the raced value, finally, return
VmBuild ==
    /\ sbPc = "vmBuild"
    /\ sbResults' = Append(sbResults, VmBuildResult(sbSettled.v))
    /\ sbPc' = "idle"
    /\ UNCHANGED <<sbImpl, sbSnippets, sbGlobals, sbInput, sbHost, sbSettled, sbLive,
                   sbHostErrors>>
    /\ UNCHANGED otherThanSandbox

\* executeInVM: catch (error), finally, return
VmCatch ==
    /\ sbPc = "vmCatch"
    /\ sbResults' = Append(sbResults, VmCatchResult(sbSettled.msg))
    /\ sbPc' = "idle"
    /\ UNCHANGED <<sbImpl, sbSnippets, sbGlobals, sbInput, sbHost, sbSettled, sbLive,
                   sbHostErrors>>
    /\ UNCHANGED otherThanSandbox

\* a host timer left by an executeInVM call fires once the call has returned:
\* the timeout timer rejects timeoutPromise, which nobody awaits if the race
\* was never reached; a snippet's throwing callback throws on the host
HostTimerFires ==
    /\ sbImpl = "vm"
    /\ \E it \in sbLive :
          /\ it.what \in {"timeoutTimer", "timeoutTimerUnraced", "throwingTimer"}
          /\ it.call < CallNo \/ sbPc = "idle"
          /\ sbLive' = sbLive \ {it}
          /\ sbHostErrors' =
                sbHostErrors \cup
                   (CASE it.what = "timeoutTimerUnraced" -> {"unhandledRejection"}
                      [] it.what = "throwingTimer" -> {"uncaughtException"}
                      [] OTHER -> {})
    /\ UNCHANGED <<sbImpl, sbPc, sbSnippets, sbGlobals, sbInput, sbHost, sbSettled,
                   sbResults>>
    /\ UNCHANGED otherThanSandbox

\* executeInV8Sandbox: sandbox = new Sandbox({httpEnabled, timersEnabled, memory})
V8Create ==
    /\ sbPc = "v8Create"
    /\ sbLive' = sbLive \cup {Item("sandbox")}
    /\ sbPc' = "v8Exec"
    /\ UNCHANGED <<sbImpl, sbSnippets, sbGlobals, sbInput, sbHost, sbSettled,
                   sbResults, sbHostErrors>>
    /\ UNCHANGED otherThanSandbox

\* what the snippet leaves running inside the sandbox
V8Started(sn) ==
    (IF sn.effect \in {"startInterval", "timerThrows"} THEN {Item("snippetInterval")} ELSE {})
    \cup (IF sn.does.k \in {"asyncHang", "syncLoop"} THEN {Item("snippetRun")} ELSE {})

\* executeInV8Sandbox: await sandbox.execute({code, timeout, globals}).  It
\* resolves to {value} when the code called setResult and to {error} when the
\* library ended the run (a timeout resolves to an error with isTimeout, see
\* scripts/test-run-code.js); a run ended for memory resolves to {error} or
\* rejects
V8Execute ==
    /\ sbPc = "v8Exec"
    /\ LET sc == AfterEffect("v8", Snippet, CurScopes)
       IN /\ sbGlobals' = sc.globals /\ sbInput' = sc.input /\ sbHost' = sc.host
          /\ sbLive' = sbLive \cup V8Started(Snippet)
          /\ CASE Snippet.does.k \in {"return", "read", "throw"} ->
                    /\ sbSettled' = [kind |-> "value", v |-> V8Wrapped(Snippet, sc)]
                    /\ sbPc' = "v8Shutdown"
               [] Snippet.does.k \in {"syncLoop", "asyncHang"} ->
                    /\ sbSettled' = [kind |-> "error", msg |-> "timeout: ms"]
                    /\ sbPc' = "v8Shutdown"
               [] OTHER ->
                    \/ /\ sbSettled' = [kind |-> "error", msg |-> "worker exited"]
                       /\ sbPc' = "v8Shutdown"
                    \/ /\ sbSettled' = [kind |-> "caught", msg |-> "memory limit reached"]
                       /\ sbPc' = "v8Catch"
    /\ UNCHANGED <<sbImpl, sbSnippets, sbResults, sbHostErrors>>
    /\ UNCHANGED otherThanSandbox

\* everything the current call started
OfThisCall == {it \in sbLive : it.call = CallNo}

\* executeInV8Sandbox: await sandbox.shutdown(); sandbox = null
V8Shutdown ==
    /\ sbPc = "v8Shutdown"
    /\ sbLive' = sbLive \ OfThisCall
    /\ sbPc' = "v8Return"
    /\ UNCHANGED <<sbImpl, sbSnippets, sbGlobals, sbInput, sbHost, sbSettled, sbResults,
                   sbHostErrors>>
    /\ UNCHANGED otherThanSandbox

\* executeInV8Sandbox: if (executionResult.error) {success: false, error:
\* String(executionResult.error)} else {...executionResult.value}
V8Return ==
    /\ sbPc = "v8Return"
    /\ sbResults' = Append(sbResults,
          IF sbSettled.kind = "error" THEN Failure("raw", sbSettled.msg) ELSE sbSettled.v)
    /\ sbPc' = "idle"
    /\ UNCHANGED <<sbImpl, sbSnippets, sbGlobals, sbInput, sbHost, sbSettled, sbLive,
                   sbHostErrors>>
    /\ UNCHANGED otherThanSandbox

\* executeInV8Sandbox: catch: shut the sandbox down if it still exists,
\* ignoring a failure of that, then classify the error by its message
V8Catch ==
    /\ sbPc = "v8Catch"
    /\ \/ sbLive' = sbLive \ OfThisCall
       \/ sbLive' = sbLive
    /\ sbResults' = Append(sbResults, V8CatchResult(sbSettled.msg))
    /\ sbPc' = "idle"
    /\ UNCHANGED <<sbImpl, sbSnippets, sbGlobals, sbInput, sbHost, sbSettled, sbHostErrors>>
    /\ UNCHANGED otherThanSandbox

InitSandbox ==
    /\ OrchIdle /\ ChainIdle /\ ClassIdle /\ SkillsIdle /\ McpIdle /\ MoreIdle
    /\ sbImpl \in {"vm", "v8"}
    /\ sbPc = "idle" /\ sbSnippets = <<>>
    /\ sbGlobals = {} /\ sbInput = {} /\ sbHost = {}
    /\ sbSettled = [kind |-> "none"] /\ sbLive = {}
    /\ sbResults = <<>> /\ sbHostErrors = {}

NextSandbox ==
    \/ SbInvoke
    \/ VmArmTimeout
    \/ VmRunInContext
    \/ VmRace
    \/ VmBuild
    \/ VmCatch
    \/ HostTimerFires
    \/ V8Create
    \/ V8Execute
    \/ V8Shutdown
    \/ V8Return
    \/ V8Catch

SpecSandbox == InitSandbox /\ [][NextSandbox]_vars

-----------------------------------------------------------------------------
(* Properties of the sandbox *)

Returned(i) == i \in 1..Len(sbResults)

\* C13: once an execute call has returned, nothing it started is still live:
\* the snippet's run, its timers, the sandbox and the timeout timer are gone.
C13_NothingOutlivesTheCall ==
    \A it \in sbLive : ~Returned(it.call)

\* C14: every call resolves to a result record and nothing reaches the host
\* unhandled; a snippet returning v gives success = true and result = v (falsy
\* values and objects with a success field included), a snippet that throws
\* gives success = false with the error's message.
C14_ResultRecordAlways ==
    /\ sbHostErrors = {}
    /\ \A i \in 1..Len(sbResults) :
          /\ sbSnippets[i].does.k = "return" =>
                sbResults[i] = Success(sbSnippets[i].does.v)
          /\ sbSnippets[i].does.k = "throw" =>
                /\ sbResults[i].success = "false"
                /\ sbResults[i].error.msg = sbSnippets[i].does.msg

\* C15: what the second of two calls reads (a global, a property of a shared
\* object such as Math, a property of INPUT) is what it reads when run alone.
C15_SecondCallSeesNothingOfFirst ==
    (Returned(2) /\ sbSnippets[2].does.k = "read" /\ sbResults[2].success = "true") =>
        sbResults[2].result =
            ReturnedValue(sbImpl, sbSnippets[2],
                          AfterEffect(sbImpl, sbSnippets[2], FreshScopes))

\* C16: a failed execution is reported in the category of its cause: a run
\* past the timeout as the timeout error, a run past the memory limit as the
\* memory-limit error, a throwing snippet as its own message.
C16_FailureCategoryMatchesCause ==
    \A i \in 1..Len(sbResults) :
        LET k == sbSnippets[i].does.k
            r == sbResults[i]
        IN /\ k \in {"syncLoop", "asyncHang"} =>
                (r.success = "false" /\ r.error.cat = "timeout")
           /\ k = "memHog" => (r.success = "false" /\ r.error.cat = "memory")
           /\ k = "throw" =>
                (r.success = "false" /\ r.error = [cat |-> "raw", msg |-> sbSnippets[i].does.msg])

-----------------------------------------------------------------------------
(* The skills cache (SkillsCacheService) and the skill routes *)

\* number of skill ids
NumSkills == 2
\* number of skill writes made through the routes
MaxWrites == 2
\* number of clock advances
MaxTicks == 2
\* number of getSkills calls
MaxGets == 2

\* private cacheTimeout: number = 5 * 60 * 1000
cacheTimeout == 5 * 60 * 1000

SkillIds == 1..NumSkills
\* the clock advances by a millisecond or by just under the cache timeout
ClockSteps == {1, cacheTimeout - 1}

SkillRow(t, st, ver) == [tenantId |-> t, status |-> st, ver |-> ver]

\* prisma.skill.findMany({where: {tenantId, status: "active"}})
ActiveSkills(db, t) ==
    {[id |-> i, tenantId |-> db[i].tenantId, status |-> db[i].status, ver |-> db[i].ver] :
        i \in {j \in SkillIds : db[j].tenantId = t /\ db[j].status = "active"}}

\* cached && now - cached.timestamp <= this.cacheTimeout
CacheValidInclusive(cached, now) ==
    cached # NoEntry /\ now - cached.timestamp <= cacheTimeout

\* cached && now - cached.timestamp < this.cacheTimeout
CacheValid(cached, now) ==
    cached # NoEntry /\ now - cached.timestamp < cacheTimeout

otherThanSkills == <<orchVars, chainVars, classVars, sandboxVars, mcpVars, moreVars>>

\* getSkills(t) up to its first await: read the clock and the cache; a valid
\* entry is returned at once, otherwise fetchSkills is awaited
GetSkillsStart(c, t) ==
    /\ skCall[c].pc \in {"idle", "returned", "rejected"}
    /\ skGets < MaxGets /\ skGets' = skGets + 1
    /\ LET cached == skCache[t]
           call == [NoCall EXCEPT !.tenant = t, !.now = skNow,
                                  !.startGen = skWrites[t], !.entry = cached,
                                  !.seq = skGets + 1]
       IN skCall' = [skCall EXCEPT ![c] =
             IF CacheValid(cached, skNow)
             THEN [call EXCEPT !.pc = "returned", !.hit = TRUE,
                               !.returned = cached.skills, !.dataGen = cached.gen]
             ELSE [call EXCEPT !.pc = "fetch"]]
    /\ UNCHANGED <<skDb, skWrites, skCache, skNow, skTicks>>
    /\ UNCHANGED otherThanSkills

\* fetchSkills: prisma.skill.findMany resolves with the tenant's active
\* skills, or rejects and getSkills rejects with it
FetchSkills(c) ==
    /\ skCall[c].pc = "fetch"
    /\ \/ skCall' = [skCall EXCEPT ![c] =
             [skCall[c] EXCEPT !.pc = "store", !.dbRead = TRUE,
                               !.fetched = ActiveSkills(skDb, skCall[c].tenant),
                               !.fetchGen = skWrites[skCall[c].tenant]]]
       \/ skCall' = [skCall EXCEPT ![c] = [@ EXCEPT !.pc = "rejected", !.dbRead = TRUE]]
    /\ UNCHANGED <<skDb, skWrites, skCache, skNow, skTicks, skGets>>
    /\ UNCHANGED otherThanSkills

\* getSkills after the await: this.cache.set(tenantId, {skills, timestamp: now});
\* return skills
GetSkillsStore(c) ==
    /\ skCall[c].pc = "store"
    /\ skCache' = [skCache EXCEPT ![skCall[c].tenant] =
          [skills |-> skCall[c].fetched, timestamp |-> skCall[c].now,
           gen |-> skCall[c].fetchGen]]
    /\ skCall' = [skCall EXCEPT ![c] =
          [skCall[c] EXCEPT !.pc = "returned", !.returned = skCall[c].fetched,
                            !.dataGen = skCall[c].fetchGen]]
    /\ UNCHANGED <<skDb, skWrites, skNow, skTicks, skGets>>
    /\ UNCHANGED otherThanSkills

\* time passes
ClockAdvances ==
    /\ skTicks < MaxTicks
    /\ \E d \in ClockSteps : skNow' = skNow + d
    /\ skTicks' = skTicks + 1
    /\ UNCHANGED <<skDb, skWrites, skCache, skGets, skCall>>
    /\ UNCHANGED otherThanSkills

WritesLeft == skWrites["t1"] + skWrites["t2"] < MaxWrites
Wrote(t) == [skWrites EXCEPT ![t] = @ + 1]

\* POST /api/skills: prisma.skill.create, status defaulting to active
SkillPost(i, t) ==
    /\ WritesLeft /\ skDb[i].status = "absent"
    /\ \E st \in {"active", "inactive"} :
          skDb' = [skDb EXCEPT ![i] = SkillRow(t, st, 0)]
    /\ skWrites' = Wrote(t)
    /\ UNCHANGED <<skCache, skNow, skTicks, skGets, skCall>>
    /\ UNCHANGED otherThanSkills

\* PUT /api/skills/[id]: prisma.skill.update of name, description, sop, status
SkillPut(i) ==
    /\ WritesLeft /\ skDb[i].status # "absent"
    /\ \E st \in {"active", "inactive"} :
          skDb' = [skDb EXCEPT ![i] = SkillRow(@.tenantId, st, @.ver + 1)]
    /\ skWrites' = Wrote(skDb[i].tenantId)
    /\ UNCHANGED <<skCache, skNow, skTicks, skGets, skCall>>
    /\ UNCHANGED otherThanSkills

\* DELETE /api/skills/[id]: prisma.skill.delete
SkillDelete(i) ==
    /\ WritesLeft /\ skDb[i].status # "absent"
    /\ skDb' = [skDb EXCEPT ![i] = SkillRow(@.tenantId, "absent", @.ver)]
    /\ skWrites' = Wrote(skDb[i].tenantId)
    /\ UNCHANGED <<skCache, skNow, skTicks, skGets, skCall>>
    /\ UNCHANGED otherThanSkills

InitSkills ==
    /\ OrchIdle /\ ChainIdle /\ ClassIdle /\ SandboxIdle /\ McpIdle /\ MoreIdle
    /\ skDb \in [SkillIds -> {SkillRow("t1", "active", 0), SkillRow("t2", "active", 0),
                              SkillRow("t1", "absent", 0)}]
    /\ skWrites = [t \in Tenants |-> 0]
    /\ skCache = [t \in Tenants |-> NoEntry]
    /\ skNow = 0 /\ skTicks = 0 /\ skGets = 0
    /\ skCall = [c \in Callers |-> NoCall]

NextSkills ==
    \/ \E c \in Callers, t \in Tenants : GetSkillsStart(c, t)
    \/ \E c \in Callers : FetchSkills(c)
    \/ \E c \in Callers : GetSkillsStore(c)
    \/ ClockAdvances
    \/ \E i \in SkillIds, t \in Tenants : SkillPost(i, t)
    \/ \E i \in SkillIds : SkillPut(i)
    \/ \E i \in SkillIds : SkillDelete(i)

SpecSkills == InitSkills /\ [][NextSkills]_vars

-----------------------------------------------------------------------------
(* Properties of the skills cache *)

\* C17: a getSkills(t) call made after skill writes of tenant t returns a list
\* read after those writes, never the list cached before them.
C17_WritesInvalidateCache ==
    \A c \in Callers :
        skCall[c].pc = "returned" => skCall[c].dataGen >= skCall[c].startGen

\* what a returned getSkills call must have done, given the entry it found
GetSkillsContract(call) ==
    /\ call.hit <=> (call.entry # NoEntry /\ call.now - call.entry.timestamp < cacheTimeout)
    /\ call.hit => (~call.dbRead /\ call.returned = call.entry.skills)
    /\ ~call.hit =>
          /\ call.dbRead /\ call.returned = call.fetched
          /\ \A row \in call.fetched : row.status = "active"
    /\ \A row \in call.returned : row.tenantId = call.tenant

\* a cache entry changes only when a call for that tenant stores what it
\* fetched, stamped with the time the call read at its start
EntriesChangeOnlyByOwnStore ==
    \A t \in Tenants :
        skCache'[t] # skCache[t] =>
            \E c \in Callers :
                /\ skCall[c].pc = "store" /\ skCall[c].tenant = t
                /\ skCall'[c].pc = "returned"
                /\ skCache'[t].skills = skCall[c].fetched
                /\ skCache'[t].timestamp = skCall[c].now

\* on a miss the fetched list has been stored under the call's tenant
StoredOnMiss ==
    \A c \in Callers :
        (skCall[c].pc = "store" /\ skCall'[c].pc = "returned") =>
            /\ skCache'[skCall[c].tenant].skills = skCall[c].fetched
            /\ skCache'[skCall[c].tenant].timestamp = skCall[c].now

\* C18: getSkills(t) at time now returns the cached list without reading
\* persistence exactly when an entry for t exists with now - timestamp <
\* cacheTimeout; otherwise it reads t's active skills, stores them under t and
\* returns them; other tenants' entries are unchanged and every returned skill
\* belongs to t.
C18_CachedExactlyWhenFresh ==
    /\ [](\A c \in Callers : skCall[c].pc = "returned" => GetSkillsContract(skCall[c]))
    /\ [][EntriesChangeOnlyByOwnStore /\ StoredOnMiss]_vars

\* a call that found an entry exactly cacheTimeout old and read persistence again
C18_Witness ==
    \E c \in Callers :
        /\ skCall[c].pc = "returned" /\ ~skCall[c].hit /\ skCall[c].dbRead
        /\ skCall[c].entry # NoEntry
        /\ skCall[c].now - skCall[c].entry.timestamp = cacheTimeout
        /\ skCache[skCall[c].tenant].timestamp = skCall[c].now

\* ---------------------------------------------------------------------
\* MCP client cache (src/lib/agent/mcp-util.ts, getMCPClient and the
\* close functions) and the three agent tools that call getMCPClient.
\* ---------------------------------------------------------------------

MaxClients == 3

otherThanMcp == <<orchVars, chainVars, classVars, sandboxVars, skillVars, moreVars>>

AgentTools == {"load_tool", "load_mcp_tools", "call_mcp_tool"}

\* the first argument each agent tool passes to getMCPClient
CacheKeyOf(agentTool, t) ==
    IF agentTool = "load_tool" THEN [by |-> "name", tool |-> t]
                               ELSE [by |-> "id", tool |-> t]

\* a Client object: the tool whose server it talks to, its connection
\* state, and whether its connection was established before
\* closeAllMCPClients was called
NewClient(t) ==
    [tool |-> t, state |-> "connecting", beforeShutdown |-> FALSE]

\* getMCPClient up to its await: the cache lookup, and on a miss the new
\* Client and the start of client.connect(transport)
GetMCPClientStart(p, agentTool, t) ==
    LET cacheKey == CacheKeyOf(agentTool, t) IN
    /\ mcCall[p].pc \in {"idle", "returned", "rejected"}
    /\ IF mcCache[cacheKey] # 0
       THEN /\ mcCall' = [mcCall EXCEPT ![p] =
                   [pc |-> "returned", key |-> cacheKey,
                    client |-> mcCache[cacheKey]]]
            /\ UNCHANGED mcClients
       ELSE /\ Len(mcClients) < MaxClients
            /\ mcClients' = Append(mcClients, NewClient(t))
            /\ mcCall' = [mcCall EXCEPT ![p] =
                   [pc |-> "connecting", key |-> cacheKey,
                    client |-> Len(mcClients) + 1]]
    /\ UNCHANGED <<mcCache, mcClosePc, mcTasks, otherThanMcp>>

\* getMCPClient after its await: connect resolved, the client is cached
\* under the key and returned; or connect rejected and the call rejects
GetMCPClientConnected(p) ==
    LET c == mcCall[p].client IN
    /\ mcCall[p].pc = "connecting"
    /\ \/ /\ mcClients' = [mcClients EXCEPT ![c].state = "connected",
                                           ![c].beforeShutdown = mcClosePc = "idle"]
          /\ mcCache' = [mcCache EXCEPT ![mcCall[p].key] = c]
          /\ mcCall' = [mcCall EXCEPT ![p].pc = "returned"]
       \/ /\ mcClients' = [mcClients EXCEPT ![c].state = "failed"]
          /\ mcCall' = [mcCall EXCEPT ![p].pc = "rejected"]
          /\ UNCHANGED mcCache
    /\ UNCHANGED <<mcClosePc, mcTasks, otherThanMcp>>

\* closeMCPClient up to its await: the lookup and the start of
\* cached.client.close()
CloseMCPClientStart(k) ==
    IF mcCache[k] # 0 THEN [pc |-> "closing", client |-> mcCache[k]]
                      ELSE NoTask

\* closeAllMCPClients up to its await: one closeMCPClient call per key the
\* cache holds now
CloseAllMCPClients ==
    /\ mcClosePc = "idle"
    /\ mcClosePc' = "closing"
    /\ mcTasks' = [k \in CacheKeys |-> CloseMCPClientStart(k)]
    /\ UNCHANGED <<mcCache, mcClients, mcCall, otherThanMcp>>

\* closeMCPClient after its await: close resolved and the key is deleted
\* from the cache; or close rejected and the delete is not reached
CloseMCPClientSettles(k) ==
    /\ mcTasks[k].pc = "closing"
    /\ \/ /\ mcClients' = [mcClients EXCEPT ![mcTasks[k].client].state = "closed"]
          /\ mcCache' = [mcCache EXCEPT ![k] = 0]
          /\ mcTasks' = [mcTasks EXCEPT ![k].pc = "fulfilled"]
       \/ /\ mcTasks' = [mcTasks EXCEPT ![k].pc = "rejected"]
          /\ UNCHANGED <<mcCache, mcClients>>
    /\ UNCHANGED <<mcCall, mcClosePc, otherThanMcp>>

\* closeAllMCPClients after Promise.allSettled: returns however the
\* closeMCPClient calls settled
CloseAllMCPClientsReturns ==
    /\ mcClosePc = "closing"
    /\ \A k \in CacheKeys : mcTasks[k].pc # "closing"
    /\ mcClosePc' = "returned"
    /\ UNCHANGED <<mcCache, mcClients, mcCall, mcTasks, otherThanMcp>>

InitMcp == OrchIdle /\ ChainIdle /\ RestIdle

NextMcp ==
    \/ \E p \in Invokers, a \in AgentTools, t \in ExternalTools :
           GetMCPClientStart(p, a, t)
    \/ \E p \in Invokers : GetMCPClientConnected(p)
    \/ CloseAllMCPClients
    \/ \E k \in CacheKeys : CloseMCPClientSettles(k)
    \/ CloseAllMCPClientsReturns

SpecMcp == InitMcp /\ [][NextMcp]_vars

ConnectedFor(t) ==
    {c \in 1..Len(mcClients) :
        mcClients[c].tool = t /\ mcClients[c].state = "connected"}

\* C19: for each external tool, under any interleaving of load_tool,
\* load_mcp_tools and call_mcp_tool, at most one MCP client is connected,
\* and a getMCPClient call that has returned for the tool returned the one
\* connected client.
C19_OneClientPerTool ==
    \A t \in ExternalTools :
        /\ Cardinality(ConnectedFor(t)) <= 1
        /\ \A p, q \in Invokers :
               (/\ mcCall[p].pc = "returned" /\ mcCall[q].pc = "returned"
                /\ mcCall[p].key.tool = t /\ mcCall[q].key.tool = t
                /\ mcClosePc = "idle")
               => mcCall[p].client = mcCall[q].client

\* C20: once closeAllMCPClients has returned, every client that was
\* connected through getMCPClient before the shutdown began is closed and
\* the cache holds no entry made before the shutdown began.
C20_CloseAllClosesEverything ==
    mcClosePc = "returned" =>
        /\ \A c \in 1..Len(mcClients) :
               mcClients[c].beforeShutdown => mcClients[c].state = "closed"
        /\ \A k \in CacheKeys :
               mcCache[k] # 0 => ~mcClients[mcCache[k]].beforeShutdown

\* ---------------------------------------------------------------------
\* Overlapping runs of the agent process endpoint on one tenant's alerts
\* (GET of the process route, AgentOrchestrator.processTenantAlerts and
\* createIssue): every await of a run is a point where another run acts.
\* ---------------------------------------------------------------------

otherThanRuns == <<orchVars, chainVars, classVars, sandboxVars, skillVars, mcpVars,
                   matchVars, invVars, conVars>>

\* the webhook stores a new alert with status "open"
AlertReceived(a) ==
    /\ rnAlerts[a] = "absent"
    /\ rnAlerts' = [rnAlerts EXCEPT ![a] = "open"]
    /\ UNCHANGED <<rnRun, rnIssues, rnBindings, otherThanRuns>>

\* getRecentAlerts: prisma.alert.findMany where status is "open"; with no
\* alert the endpoint answers at once
RunGetRecentAlerts(r) ==
    LET found == {a \in RunAlertIds : rnAlerts[a] = "open"} IN
    /\ rnRun[r].pc = "idle"
    /\ rnRun' = [rnRun EXCEPT ![r] =
           [pc |-> IF found = {} THEN "responded" ELSE "invoke",
            alerts |-> found, issueId |-> 0]]
    /\ UNCHANGED <<rnAlerts, rnIssues, rnBindings, otherThanRuns>>

\* processTenantAlerts: await getTenantTools, await invoke (the agent)
RunInvoke(r) ==
    /\ rnRun[r].pc = "invoke"
    /\ rnRun' = [rnRun EXCEPT ![r].pc = "create"]
    /\ UNCHANGED <<rnAlerts, rnIssues, rnBindings, otherThanRuns>>

\* createIssue: prisma.issue.create
RunIssueCreate(r) ==
    /\ rnRun[r].pc = "create"
    /\ rnIssues' = rnIssues + 1
    /\ rnRun' = [rnRun EXCEPT ![r].pc = "bind", ![r].issueId = rnIssues + 1]
    /\ UNCHANGED <<rnAlerts, rnBindings, otherThanRuns>>

\* createIssue: prisma.issueAlertBinding.createMany
RunBindingCreateMany(r) ==
    /\ rnRun[r].pc = "bind"
    /\ rnBindings' = rnBindings \cup
           {[issueId |-> rnRun[r].issueId, alertId |-> a] : a \in rnRun[r].alerts}
    /\ rnRun' = [rnRun EXCEPT ![r].pc = "update"]
    /\ UNCHANGED <<rnAlerts, rnIssues, otherThanRuns>>

\* createIssue: prisma.alert.updateMany sets status "investigating"; then
\* logAgentSteps and the endpoint's response
RunAlertUpdateMany(r) ==
    /\ rnRun[r].pc = "update"
    /\ rnAlerts' = [a \in RunAlertIds |->
           IF a \in rnRun[r].alerts THEN "investigating" ELSE rnAlerts[a]]
    /\ rnRun' = [rnRun EXCEPT ![r].pc = "responded"]
    /\ UNCHANGED <<rnIssues, rnBindings, otherThanRuns>>

\* a prisma call of the run rejects: the endpoint's catch answers 500
RunFails(r) ==
    /\ rnRun[r].pc \in {"create", "bind", "update"}
    /\ rnRun' = [rnRun EXCEPT ![r].pc = "failed"]
    /\ UNCHANGED <<rnAlerts, rnIssues, rnBindings, otherThanRuns>>

InitRuns == OrchIdle /\ ChainIdle /\ RestIdle

NextRuns ==
    \/ \E a \in RunAlertIds : AlertReceived(a)
    \/ \E r \in Runs :
          \/ RunGetRecentAlerts(r)
          \/ RunInvoke(r)
          \/ RunIssueCreate(r)
          \/ RunBindingCreateMany(r)
          \/ RunAlertUpdateMany(r)
          \/ RunFails(r)

SpecRuns == InitRuns /\ [][NextRuns]_vars

IssuesBoundTo(a) == {b.issueId : b \in {x \in rnBindings : x.alertId = a}}

\* C21: under any interleaving of overlapping endpoint runs every alert is
\* bound to at most one Issue, and no two runs have selected the same alert.
C21_AlertBoundToOneIssue ==
    /\ \A a \in RunAlertIds : Cardinality(IssuesBoundTo(a)) <= 1
    /\ \A r, q \in Runs : r # q => rnRun[r].alerts \cap rnRun[q].alerts = {}

\* ---------------------------------------------------------------------
\* Skill matcher (src/lib/agent/skill-matcher.ts).  A string is a sequence
\* of characters.
\* ---------------------------------------------------------------------

otherThanMatch == <<orchVars, chainVars, classVars, sandboxVars, skillVars, mcpVars,
                    runVars, invVars, conVars>>

\* String.prototype.toLowerCase
LowerChar(c) ==
    CASE c = "C" -> "c" [] c = "P" -> "p" [] c = "U" -> "u" [] c = "D" -> "d"
      [] c = "I" -> "i" [] c = "S" -> "s" [] c = "K" -> "k"
      [] OTHER -> c

toLowerCase(str) == [i \in 1..Len(str) |-> LowerChar(str[i])]

\* String.prototype.includes
includes(str, sub) ==
    \E i \in 0..(Len(str) - Len(sub)) : SubSeq(str, i + 1, i + Len(sub)) = sub

\* pattern.startsWith("/") && pattern.endsWith("/")
IsDelimited(pattern) ==
    Len(pattern) >= 1 /\ pattern[1] = "/" /\ pattern[Len(pattern)] = "/"

\* pattern.slice(1, -1)
RegexBody(pattern) == SubSeq(pattern, 2, Len(pattern) - 1)

\* new RegExp(body, "i") throws a SyntaxError: of the characters used here
\* only an unclosed "[" makes a pattern invalid
RegExpThrows(body) == \E i \in 1..Len(body) : body[i] = "["

\* regex.test(str) for a valid body, which here consists of literal
\* characters, under the flag "i"
RegexTest(body, str) == includes(toLowerCase(str), toLowerCase(body))

NullText == [isNull |-> TRUE, s |-> <<>>]
Text(str) == [isNull |-> FALSE, s |-> str]

\* the plain-text branch of patternMatches
PlainTextMatch(pattern, alert) ==
    LET lowerPattern == toLowerCase(pattern) IN
    \/ includes(toLowerCase(alert.title), lowerPattern)
    \/ includes(toLowerCase(alert.alertType), lowerPattern)
    \/ (~alert.description.isNull
        /\ includes(toLowerCase(alert.description.s), lowerPattern))

\* patternMatches of the two variants of the matcher
patternMatches(variant, pattern, alert) ==
    IF IsDelimited(pattern)
    THEN IF RegExpThrows(RegexBody(pattern))
         THEN includes(toLowerCase(pattern), toLowerCase(alert.title))
         ELSE IF variant = "list"
              THEN RegexTest(RegexBody(pattern), alert.title)
              ELSE \/ RegexTest(RegexBody(pattern), alert.title)
                   \/ RegexTest(RegexBody(pattern), alert.alertType)
                   \/ (~alert.description.isNull /\ alert.description.s # <<>>
                       /\ RegexTest(RegexBody(pattern), alert.description.s))
    ELSE PlainTextMatch(pattern, alert)

\* text.split(/\s+/): the pieces between runs of spaces
RECURSIVE SplitFrom(_, _, _)
SplitFrom(str, i, cur) ==
    IF i > Len(str) THEN <<cur>>
    ELSE IF str[i] = " "
         THEN IF i > 1 /\ str[i - 1] = " "
              THEN SplitFrom(str, i + 1, cur)
              ELSE <<cur>> \o SplitFrom(str, i + 1, <<>>)
         ELSE SplitFrom(str, i + 1, Append(cur, str[i]))

\* new Set(text.split(/\s+/).filter(w => w.length > 3))
KeywordSet(str) ==
    LET pieces == SplitFrom(str, 1, <<>>)
    IN {pieces[i] : i \in {k \in 1..Len(pieces) : Len(pieces[k]) > 3}}

Max(a, b) == IF a >= b THEN a ELSE b

\* a score common / size is kept as the pair <<common, size>>; 0 is <<0, 1>>
Zero == <<0, 1>>
Greater(x, y) == x[1] * y[2] > y[1] * x[2]
AtMost(x, y) == ~Greater(x, y)
Same(x, y) == x[1] * y[2] = y[1] * x[2]
\* score > 0.1
AboveThreshold(x) == x[1] * 10 > x[2]

\* calculateKeywordSimilarity dividing by the size of the first set
calculateKeywordSimilarityByFirst(text1, text2) ==
    LET words1 == KeywordSet(text1)
        words2 == KeywordSet(text2)
    IN IF words1 = {} \/ words2 = {} THEN Zero
       ELSE <<Cardinality(words1 \cap words2), Cardinality(words1)>>

\* calculateKeywordSimilarity
calculateKeywordSimilarity(text1, text2) ==
    LET words1 == KeywordSet(text1)
        words2 == KeywordSet(text2)
    IN IF words1 = {} \/ words2 = {} THEN Zero
       ELSE <<Cardinality(words1 \cap words2),
              Max(Cardinality(words1), Cardinality(words2))>>

\* [a, b, c].join(" ")
Join3(a, b, c) == a \o <<" ">> \o b \o <<" ">> \o c

\* matchSemantic: searchText
SearchText(alert) ==
    toLowerCase(Join3(alert.title, alert.alertType,
                      IF alert.description.isNull THEN <<>> ELSE alert.description.s))

\* matchSemantic: skillText
SkillText(skill) == toLowerCase(Join3(skill.name, skill.problemDescription, skill.sop))

MaxBindings == 2

\* the alerts handed to the matcher
AlertCpu ==
    [tenantId |-> "t1", title |-> <<"C", "P", "U", " ", "h", "i", "g", "h">>, alertType |-> <<"c", "p", "u">>,
     description |-> NullText]
AlertBracket ==
    [tenantId |-> "t1", title |-> <<"[">>, alertType |-> <<"d", "i", "s", "k">>,
     description |-> Text(<<"d", "i", "s", "k", " ", "f", "u", "l", "l", " ", "h", "i", "g", "h">>)]
AlertSlash ==
    [tenantId |-> "t1", title |-> <<"d", "i", "s", "k", " ", "/", "[", "/", " ", "f", "u", "l", "l">>, alertType |-> <<"d", "i", "s", "k">>,
     description |-> Text(<<>>)]

AlertLists ==
    [list |-> {<<AlertCpu>>, <<AlertBracket>>, <<AlertSlash>>, <<AlertBracket, AlertCpu>>},
     single |-> {<<AlertCpu>>, <<AlertBracket>>, <<AlertSlash>>}]

\* rows prisma.alertSkillBinding may hold
BindingPatterns == {<<"c", "p", "u">>, <<"/", "[", "/">>, <<"/", "D", "I", "S", "K", "/">>}
BindingRows ==
    [tenantId : {"t1"}, priority : {10, 5}, alertPattern : BindingPatterns,
     skillId : {"s1", "s2"}]
    \cup {[tenantId |-> "t2", priority |-> 10, alertPattern |-> <<"c", "p", "u">>, skillId |-> "s3"]}

\* rows prisma.skill may hold
SkillDisk ==
    [id |-> "s1", tenantId |-> "t1", status |-> "active", name |-> <<"d", "i", "s", "k">>,
     problemDescription |-> <<"D", "i", "s", "k", " ", "f", "u", "l", "l">>, sop |-> <<"c", "l", "e", "a", "n", " ", "d", "i", "s", "k", " ", "s", "p", "a", "c", "e">>]
SkillCpu ==
    [id |-> "s2", tenantId |-> "t1", status |-> "active", name |-> <<"c", "p", "u">>,
     problemDescription |-> <<"h", "i", "g", "h", " ", "l", "o", "a", "d">>, sop |-> <<"r", "e", "s", "t", "a", "r", "t">>]
SkillLong ==
    [id |-> "s3", tenantId |-> "t1", status |-> "active", name |-> <<"r", "u", "n", "b", "o", "o", "k">>,
     problemDescription |-> <<"d", "i", "s", "k", " ", "a", "a", "a", "a", " ", "b", "b", "b", "b", " ", "c", "c", "c", "c">>,
     sop |-> <<"d", "d", "d", "d", " ", "e", "e", "e", "e", " ", "f", "f", "f", "f", " ", "g", "g", "g", "g", " ", "h", "h", "h", "h">>]
SkillRetired == [SkillDisk EXCEPT !.id = "s4", !.status = "inactive"]
SkillElsewhere == [SkillDisk EXCEPT !.id = "s5", !.tenantId = "t2"]

SkillTables ==
    {<<>>, <<SkillDisk>>, <<SkillCpu, SkillDisk>>, <<SkillDisk, SkillCpu>>, <<SkillLong>>,
     <<SkillLong, SkillDisk>>, <<SkillRetired, SkillElsewhere>>}

\* prisma.alertSkillBinding.findMany({where: {tenantId}, orderBy: {priority:
\* "desc"}}): the tenant's rows by descending priority; the order of rows of
\* equal priority is whatever the database produces
FindBindings(tenantId) ==
    LET rows == {b \in mtBindings : b.tenantId = tenantId}
    IN {f \in [1..Cardinality(rows) -> rows] :
           /\ \A i, j \in DOMAIN f : i # j => f[i] # f[j]
           /\ \A i, j \in DOMAIN f : i < j => f[i].priority >= f[j].priority}

ManualMatchOf(binding) ==
    [skill |-> binding.skillId, matchType |-> "manual_binding", confidence |-> <<1, 1>>]

\* matchManualBinding(alerts): the loop over bindings and, inside, over alerts
RECURSIVE ManualList(_, _, _, _)
ManualList(rows, alerts, i, j) ==
    IF i > Len(rows) THEN <<>>
    ELSE IF j > Len(alerts) THEN ManualList(rows, alerts, i + 1, 1)
    ELSE (IF patternMatches("list", rows[i].alertPattern, alerts[j])
          THEN <<ManualMatchOf(rows[i])>> ELSE <<>>)
         \o ManualList(rows, alerts, i, j + 1)

TestOf(variant, binding, alert) ==
    [pattern |-> binding.alertPattern, alert |-> alert,
     hit |-> patternMatches(variant, binding.alertPattern, alert)]

\* matchSkill(alerts: Alert[]): the manual stage only
MatchSkillList ==
    /\ mtPc = "idle" /\ mtVariant = "list"
    /\ \E rows \in FindBindings(mtAlerts[1].tenantId) :
          LET manualMatch == ManualList(rows, mtAlerts, 1, 1) IN
          /\ mtTests' = {TestOf("list", rows[i], mtAlerts[j]) :
                            i \in DOMAIN rows, j \in DOMAIN mtAlerts}
          /\ mtResult' = IF Len(manualMatch) > 0
                         THEN [kind |-> "list", matches |-> manualMatch]
                         ELSE [kind |-> "null"]
    /\ mtPc' = "returned"
    /\ mtScores' = {}
    /\ mtPrev' = mtResult
    /\ UNCHANGED <<mtVariant, mtAlerts, mtBindings, mtSkills, otherThanMatch>>

\* matchSkill(alert: Alert) up to the await of matchSemantic: matchManualBinding
\* returns at the first binding that matches
MatchSkillSingle ==
    /\ mtPc = "idle" /\ mtVariant = "single"
    /\ \E rows \in FindBindings(mtAlerts[1].tenantId) :
          LET hits == {i \in DOMAIN rows :
                          patternMatches("single", rows[i].alertPattern, mtAlerts[1])}
              tested == IF hits = {} THEN DOMAIN rows ELSE 1..Min(hits)
          IN /\ mtTests' = {TestOf("single", rows[i], mtAlerts[1]) : i \in tested}
             /\ IF hits = {}
                THEN /\ mtPc' = "semantic"
                     /\ mtResult' = NoMatchResult
                ELSE /\ mtPc' = "returned"
                     /\ mtResult' = [kind |-> "single",
                                     match |-> ManualMatchOf(rows[Min(hits)])]
    /\ mtScores' = {}
    /\ mtPrev' = mtResult
    /\ UNCHANGED <<mtVariant, mtAlerts, mtBindings, mtSkills, otherThanMatch>>

\* prisma.skill.findMany({where: {tenantId, status: "active"}})
FindSkills(tenantId) ==
    SelectSeq(mtSkills, LAMBDA k : k.tenantId = tenantId /\ k.status = "active")

NoBest == [skill |-> "", score |-> Zero]

\* matchSemantic: the loop keeping the last of the skills above the threshold
RECURSIVE BestMatchLastAbove(_, _, _)
BestMatchLastAbove(skills, searchText, i) ==
    IF i = 0 THEN NoBest
    ELSE LET best == BestMatchLastAbove(skills, searchText, i - 1)
             score == calculateKeywordSimilarity(searchText, SkillText(skills[i]))
         IN IF AboveThreshold(score)
            THEN [skill |-> skills[i].id, score |-> score]
            ELSE best

\* matchSemantic: bestMatch and bestScore after the first i skills
RECURSIVE BestMatch(_, _, _)
BestMatch(skills, searchText, i) ==
    IF i = 0 THEN NoBest
    ELSE LET best == BestMatch(skills, searchText, i - 1)
             score == calculateKeywordSimilarity(searchText, SkillText(skills[i]))
         IN IF Greater(score, best.score) /\ AboveThreshold(score)
            THEN [skill |-> skills[i].id, score |-> score]
            ELSE best

\* matchSemantic, and the return of matchSkill after it
MatchSemantic ==
    LET skills == FindSkills(mtAlerts[1].tenantId)
        searchText == SearchText(mtAlerts[1])
        best == BestMatch(skills, searchText, Len(skills))
    IN /\ mtPc = "semantic"
       /\ mtScores' = {[skill |-> skills[i].id, text1 |-> searchText,
                        text2 |-> SkillText(skills[i]),
                        score |-> calculateKeywordSimilarity(searchText,
                                                             SkillText(skills[i]))] :
                          i \in DOMAIN skills}
       /\ mtResult' = IF best.skill # ""
                      THEN [kind |-> "single",
                            match |-> [skill |-> best.skill, matchType |-> "semantic",
                                       confidence |-> best.score]]
                      ELSE [kind |-> "null"]
       /\ mtPc' = "returned"
       /\ UNCHANGED <<mtVariant, mtAlerts, mtBindings, mtSkills, mtTests, mtPrev,
                      otherThanMatch>>

\* the caller has the result; the next call runs against the same rows
MatchSkillAgain ==
    /\ mtPc = "returned"
    /\ mtPc' = "idle"
    /\ UNCHANGED <<mtVariant, mtAlerts, mtBindings, mtSkills, mtTests, mtScores,
                   mtResult, mtPrev, otherThanMatch>>

InitMatch ==
    /\ OrchIdle /\ ChainIdle /\ ClassIdle /\ SandboxIdle /\ SkillsIdle /\ McpIdle
    /\ RunsIdle /\ InvIdle /\ ConIdle
    /\ mtVariant \in {"list", "single"}
    /\ mtAlerts \in AlertLists[mtVariant]
    /\ mtBindings \in {B \in SUBSET BindingRows : Cardinality(B) <= MaxBindings}
    /\ mtSkills \in SkillTables
    /\ mtPc = "idle" /\ mtTests = {} /\ mtScores = {}
    /\ mtResult = NoMatchResult /\ mtPrev = NoMatchResult

NextMatch == MatchSkillList \/ MatchSkillSingle \/ MatchSemantic \/ MatchSkillAgain

SpecMatch == InitMatch /\ [][NextMatch]_vars

\* the tenant's bindings that match one of the alerts handed to matchSkill
MatchingBindings ==
    {b \in mtBindings :
        /\ b.tenantId = mtAlerts[1].tenantId
        /\ \E j \in DOMAIN mtAlerts : patternMatches(mtVariant, b.alertPattern, mtAlerts[j])}

TopBindings == {b \in MatchingBindings : \A c \in MatchingBindings : b.priority >= c.priority}

IsManual(res) ==
    \/ res.kind = "list"
    \/ (res.kind = "single" /\ res.match.matchType = "manual_binding")

FirstSkill(res) ==
    IF res.kind = "list" THEN res.matches[1].skill
    ELSE IF res.kind = "single" THEN res.match.skill
    ELSE ""

\* C22 (first half): when bindings match, matchSkill returns the skill of a
\* matching binding of the highest priority, as its single result or as the
\* first element of its list.
C22_HighestPriorityFirst ==
    (mtPc = "returned" /\ MatchingBindings # {}) =>
        /\ IsManual(mtResult)
        /\ FirstSkill(mtResult) \in {b.skillId : b \in TopBindings}

\* C22: when several bindings match, matchSkill returns the skill of the
\* matching binding of the highest priority, and two calls made against the
\* same stored bindings return the same skill.
C22_HighestPriorityDeterministic ==
    (mtPc = "returned" /\ MatchingBindings # {}) =>
        /\ IsManual(mtResult)
        /\ FirstSkill(mtResult) \in {b.skillId : b \in TopBindings}
        /\ IsManual(mtPrev) => FirstSkill(mtPrev) = FirstSkill(mtResult)

\* the tenant's active skills, and the best score among them
ActiveSkillsOf(tenantId) ==
    {mtSkills[i] : i \in {k \in DOMAIN mtSkills :
         mtSkills[k].tenantId = tenantId /\ mtSkills[k].status = "active"}}

ScoreOf(skill) == calculateKeywordSimilarity(SearchText(mtAlerts[1]), SkillText(skill))

SemanticCandidates ==
    {k \in ActiveSkillsOf(mtAlerts[1].tenantId) : AboveThreshold(ScoreOf(k))}

\* C23: matchSkill evaluates the semantic stage exactly when no binding
\* matches: with a matching binding the result is a manual_binding match of
\* confidence 1.0 and nothing is scored; without one every active skill is
\* scored and the result is a semantic match, or no match when no skill
\* scores above the threshold.
C23_SemanticExactlyWhenNoBinding ==
    mtPc = "returned" =>
        IF MatchingBindings # {}
        THEN /\ IsManual(mtResult)
             /\ mtScores = {}
             /\ mtResult.kind = "single" => mtResult.match.confidence = <<1, 1>>
             /\ mtResult.kind = "list" =>
                    \A i \in DOMAIN mtResult.matches :
                        /\ mtResult.matches[i].matchType = "manual_binding"
                        /\ mtResult.matches[i].confidence = <<1, 1>>
        ELSE /\ {e.skill : e \in mtScores} =
                    {k.id : k \in ActiveSkillsOf(mtAlerts[1].tenantId)}
             /\ IF SemanticCandidates = {}
                THEN mtResult.kind = "null"
                ELSE /\ mtResult.kind = "single"
                     /\ mtResult.match.matchType = "semantic"

C27_SimilaritySymmetricBounded ==
    \A e \in mtScores :
        /\ Same(e.score, calculateKeywordSimilarity(e.text1, e.text2))
        /\ Same(calculateKeywordSimilarity(e.text1, e.text2),
                calculateKeywordSimilarity(e.text2, e.text1))
        /\ KeywordSet(e.text1) # {} =>
               Same(calculateKeywordSimilarity(e.text1, e.text1), <<1, 1>>)
        /\ KeywordSet(e.text2) # {} =>
               Same(calculateKeywordSimilarity(e.text2, e.text2), <<1, 1>>)
        /\ e.score[1] >= 0 /\ e.score[2] > 0 /\ e.score[1] <= e.score[2]

\* two texts with different numbers of qualifying words and a common one
\* were scored
C27_Witness ==
    \E e \in mtScores :
        /\ Cardinality(KeywordSet(e.text1)) # Cardinality(KeywordSet(e.text2))
        /\ KeywordSet(e.text1) \cap KeywordSet(e.text2) # {}

\* C30: a /.../ pattern whose body is not a valid regular expression matches
\* an alert exactly when the plain-text test does: when the alert's title,
\* type or description contains the pattern text case-insensitively.
C30_InvalidRegexIsPlainText ==
    \A e \in mtTests :
        (IsDelimited(e.pattern) /\ RegExpThrows(RegexBody(e.pattern))) =>
            (e.hit <=> PlainTextMatch(e.pattern, e.alert))

\* ---------------------------------------------------------------------
\* The XML repair cascade and the parsing step, checked on the responses
\* the orchestrator receives in Spec.
\* ---------------------------------------------------------------------

Without(xml, tok) == SelectSeq(xml, LAMBDA t : t # tok)

\* the block's only defect is the token: it does not parse, and it parses
\* once the token is taken out
OnlyDefect(xml, tok) ==
    /\ xml # <<>> /\ Includes(xml, tok)
    /\ ~ParseOk(xml) /\ ParseOk(Without(xml, tok))

ConclusionAfter(xml) ==
    IF ParseOk(xml) THEN Get(ParseString(xml), "conclusion") ELSE Undefined

\* the tags xmlToJSON hands to wrapTagsWithCDATA
WrappedTags == {"content", "answer", "detailed_analysis"}

\* position i lies between <tag> and the next </tag>
InsideTag(xml, i, tag) ==
    \E o \in 1..(i - 1) :
        xml[o] = Open(tag) /\ \A k \in o..i : xml[k] # Close(tag)

\* per response: the defect of its block, the stage that parsed it, and the
\* conclusion of the parse the cascade's second and third stage work on
RepairOf ==
    [r \in Responses |->
        LET xml == BlockOf(r) IN
        [onlyAmp |-> OnlyDefect(xml, Amp),
         onlyLt |-> OnlyDefect(xml, Lt),
         stage |-> IF xml = <<>> THEN 0 ELSE XmlStage(xml),
         escaped |-> ConclusionAfter(EscapeAmp(xml)),
         wrapped |-> ConclusionAfter(wrapTagsWithCDATA(EscapeAmp(xml))),
         ltWrapped |-> \A i \in Positions(xml, Lt) :
                          \E tag \in WrappedTags : InsideTag(xml, i, tag),
         parsed |-> parseXMLResponse(r) # Null]]

C26_ParseFailureIsIndeterminate ==
    \A t \in Tenants :
        (response[t] \in Responses /\ ~RepairOf[response[t]].parsed) =>
            /\ result[t].conclusion = Undefined
            /\ result[t].isRealIssue = "null"
            /\ result[t].errors = <<>>
            /\ pc[t] \in {"create", "bind", "update", "log", "returned", "thrown"}
            /\ pc[t] = "thrown" => ret[t].error = DbError
            /\ \A i \in issues :
                   i.id = issueOf[t] =>
                       /\ i.aiConclusion = Undefined /\ i.isRealIssue = "null"
                       /\ i.status = "analyzing"

C26_Witness ==
    \E t \in Tenants :
        /\ response[t] \in Responses /\ ~RepairOf[response[t]].parsed
        /\ \E i \in issues : i.id = issueOf[t]

\* ---------------------------------------------------------------------
\* SkillsCacheService.invalidate against getSkills calls in flight
\* (src/unnamed/part_007): two callers of getSkills, the skill routes and
\* invalidate; the clock stands still, so a stored entry stays valid.
\* ---------------------------------------------------------------------

otherThanInv == <<orchVars, chainVars, classVars, sandboxVars, mcpVars, runVars,
                  matchVars, conVars>>

InvCallers == {"c1", "c2"}
\* the tenant whose cache entry the calls are about
InvTenants == {"t1"}

\* invalidate(tenantId): this.cache.delete(tenantId)
Invalidate(t) ==
    /\ skCache' = [skCache EXCEPT ![t] = NoEntry]
    /\ skInval' = [skInval EXCEPT ![t] = [gen |-> skWrites[t], gets |-> skGets]]
    /\ UNCHANGED <<skDb, skWrites, skNow, skTicks, skGets, skCall>>
    /\ UNCHANGED otherThanInv

InitInvalidate ==
    /\ OrchIdle /\ ChainIdle /\ ClassIdle /\ SandboxIdle /\ McpIdle /\ MoreIdle
    /\ skDb = [i \in SkillIds |-> SkillRow("t1", "active", 0)]
    /\ skWrites = [t \in Tenants |-> 0]
    /\ skCache = [t \in Tenants |-> NoEntry]
    /\ skNow = 0 /\ skTicks = 0 /\ skGets = 0
    /\ skCall = [c \in InvCallers |-> NoCall]

NextInvalidate ==
    \/ \E c \in InvCallers, t \in InvTenants : GetSkillsStart(c, t)
    \/ \E c \in InvCallers : FetchSkills(c)
    \/ \E c \in InvCallers : GetSkillsStore(c)
    \/ \E i \in SkillIds, t \in Tenants : SkillPost(i, t)
    \/ \E i \in SkillIds : SkillPut(i)
    \/ \E i \in SkillIds : SkillDelete(i)
    \/ \E t \in InvTenants : Invalidate(t)

SpecInvalidate == InitInvalidate /\ [][NextInvalidate]_vars

\* the getSkills(t) call of caller c started after invalidate(t) returned
StartedAfterInvalidate(c, t) ==
    /\ skCall[c].tenant = t
    /\ skInval[t] # NoInval
    /\ skCall[c].seq > skInval[t].gets

\* C28: a getSkills(t) call that starts after invalidate(t) has returned never
\* returns a list read before the writes that preceded the invalidate, also
\* when another getSkills(t) call awaited its fetch while invalidate ran.
C28_NoStaleListAfterInvalidate ==
    \A c \in InvCallers, t \in InvTenants :
        (skCall[c].pc = "returned" /\ StartedAfterInvalidate(c, t))
            => skCall[c].dataGen >= skInval[t].gen

\* ---------------------------------------------------------------------
\* Console capture of overlapping run_code executions (executeInVM of
\* src/lib/agent/tools/run-code.ts).  A console function is "host", the
\* function the process started with, or the id of the execution whose
\* closure pushes into that execution's logs array.
\* ---------------------------------------------------------------------

otherThanCon == <<orchVars, chainVars, classVars, sandboxVars, skillVars, mcpVars,
                  runVars, matchVars, invVars>>

\* the three closures executeInVM assigns to console.log, .error and .warn
CaptureOf(e) == [m \in Methods |-> e]

\* executeInVM up to the await of Promise.race: originalLog, originalError and
\* originalWarn are read from the console, then the console functions are
\* replaced
ExecuteInVMStart(e) ==
    /\ conExec[e].pc = "idle"
    /\ conExec' = [conExec EXCEPT ![e] = [pc |-> "running", original |-> conConsole]]
    /\ conConsole' = CaptureOf(e)
    /\ UNCHANGED <<conOutput, otherThanCon>>

\* executeInVM when new vm.Script or runInContext throws before any await:
\* catch and finally run in the same turn
ExecuteInVMThrows(e) ==
    /\ conExec[e].pc = "idle"
    /\ conExec' = [conExec EXCEPT ![e] = [pc |-> "returned", original |-> conConsole]]
    /\ UNCHANGED <<conConsole, conOutput, otherThanCon>>

\* executeInVM after the await: the finally block assigns the saved functions
\* back, and the execution returns
ExecuteInVMFinally(e) ==
    /\ conExec[e].pc = "running"
    /\ conConsole' = conExec[e].original
    /\ conExec' = [conExec EXCEPT ![e].pc = "returned"]
    /\ UNCHANGED <<conOutput, otherThanCon>>

\* some execution has returned and none is running
AllReturned ==
    /\ \E e \in Execs : conExec[e].pc = "returned"
    /\ \A e \in Execs : conExec[e].pc # "running"

\* code of the host process outside the executions calls console[m]
HostConsoleCall(m) ==
    LET to == conConsole[m]
        call == [method |-> m, to |-> to,
                 finished |-> to # "host" /\ conExec[to].pc = "returned",
                 allReturned |-> AllReturned]
    IN /\ call # conOutput
       /\ conOutput' = call
       /\ UNCHANGED <<conConsole, conExec, otherThanCon>>

InitConsole == OrchIdle /\ ChainIdle /\ RestIdle

NextConsole ==
    \/ \E e \in Execs : ExecuteInVMStart(e)
    \/ \E e \in Execs : ExecuteInVMThrows(e)
    \/ \E e \in Execs : ExecuteInVMFinally(e)
    \/ \E m \in Methods : HostConsoleCall(m)

SpecConsole == InitConsole /\ [][NextConsole]_vars

\* C29: once every overlapping run_code execution has returned, console.log,
\* console.error and console.warn are the functions they were before the first
\* execution started, and no output of the host process is pushed into the log
\* buffer of a finished execution.
C29_ConsoleRestoredAfterAllReturned ==
    /\ AllReturned => conConsole = HostConsole
    /\ conOutput.allReturned => ~conOutput.finished

====
